---- MODULE Spec2Model ----
(***************************************************************************)
(* Model of the translation engine of the Anthropic -> Gemini proxy:       *)
(*   - StreamConverter (converters/stream-converter, src/unnamed/part_002) *)
(*   - ThoughtSignatureService (src/src/services/thought-signature.ts)     *)
(*   - RequestConverter / ResponseConverter (src/src/converters)           *)
(*                                                                         *)
(* Text is modelled as a sequence of tokens.  The tokens are the           *)
(* characters the code inspects ("{", "}", "[", "]", ",", newline, the     *)
(* double quote), the SSE prefix "data: " taken as one token, and one      *)
(* payload token per upstream response object that stands for the rest of  *)
(* that object's JSON text and identifies the object.                      *)
(***************************************************************************)
EXTENDS Integers, Sequences, FiniteSets, TLC

\* ------------------------------------------------------------------------
\* Bounds
\* ------------------------------------------------------------------------
MaxObjs == 2
MaxParts == 2
MaxChunks == 2
MaxTurns == 2
MaxMsgs == 2
MaxTurnParts == 3
MaxStored == 1
MaxRespParts == 2
MaxOps == 3
MaxOpsBeforeExtract == 1
MaxRequests == 2
MaxAlts == 2
MaxDepth == 2
MaxStreamParts == 3

\* ------------------------------------------------------------------------
\* Values
\* ------------------------------------------------------------------------
Undefined == "undefined"
Null == "null"
DUMMY_THOUGHT_SIGNATURE == "skip_thought_signature_validator"
Sigs == {"s1", "s2"}

\* JavaScript truthiness of an optional string
Truthy(s) == s # Undefined /\ s # Null /\ s # ""

LB == "{"
RB == "}"
QT == "quote"
LS == "["
RS == "]"
CM == ","
NL == "nl"
DT == "data: "
PayloadTok == <<"1", "2", "3", "4", "5">>
Payloads == {PayloadTok[k] : k \in 1..Len(PayloadTok)}
TokId(tok) == CHOOSE k \in 1..Len(PayloadTok) : PayloadTok[k] = tok

\* ------------------------------------------------------------------------
\* Upstream (Gemini) data: parts, usage metadata, response objects
\* ------------------------------------------------------------------------
\* kind "text": a part with a text field; kind "functionCall": a part with a
\* functionCall field, whose serialized args are kept in text; kind "null":
\* a null element of the parts array
Part(kind, text, thought, sig, name) ==
  [kind |-> kind, text |-> text, thought |-> thought, sig |-> sig, name |-> name]

TextPart(text) == Part("text", text, FALSE, Undefined, "")
NullPart == Part("null", "", FALSE, Undefined, "")

\* the parts the upstream may send in the part-level runs
PartPalette ==
  { TextPart("a"),
    Part("text", "b", FALSE, "s1", ""),
    Part("text", "", FALSE, "s2", ""),
    Part("text", "u", TRUE, "s1", ""),
    Part("text", "", TRUE, Undefined, ""),
    Part("functionCall", "{x:1}", FALSE, Undefined, "f"),
    NullPart }

Absent == -1
NoUsage == [present |-> FALSE, prompt |-> Absent, cand |-> Absent, thoughts |-> Absent]
Usage1 == [present |-> TRUE, prompt |-> 5, cand |-> 3, thoughts |-> 2]
Usage2 == [present |-> TRUE, prompt |-> Absent, cand |-> 4, thoughts |-> Absent]

Chunk(isNull, usage, parts) == [isNull |-> isNull, usage |-> usage, parts |-> parts]
NullChunk == Chunk(TRUE, NoUsage, <<>>)
EmptyChunk == Chunk(FALSE, NoUsage, <<>>)

\* a ?? b on optional numbers
Coalesce(a, b) == IF a = Absent THEN b ELSE a

\* ------------------------------------------------------------------------
\* Output (Anthropic) stream events
\* ------------------------------------------------------------------------
Ev(type, index, kind, text, n) ==
  [type |-> type, index |-> index, kind |-> kind, text |-> text, n |-> n]

VARIABLES
  pc, wire, objs, framing, chunksRead, buffer,
  blockIndex, messageStarted, currentBlockType, currentThinkingSignature,
  hasEmittedToolUse, inputTokens, outputTokens,
  lastTextSignature,
  out, cancelled, readerCancelled, lateChunk,
  reads, pulls, raised, dispatched,
  store, toolNameMap, call, arg, result,
  server

\* the variables only the converter calls of the ledger runs change
serviceVars == << store, toolNameMap, call, arg, result, server >>

\* the variables of the runs of one request
oneRequestVars ==
  << pc, wire, objs, framing, chunksRead, buffer,
     blockIndex, messageStarted, currentBlockType, currentThinkingSignature,
     hasEmittedToolUse, inputTokens, outputTokens,
     lastTextSignature,
     out, cancelled, readerCancelled, lateChunk,
     reads, pulls, raised, dispatched,
     store, toolNameMap, call, arg, result >>

vars == << oneRequestVars, server >>


\* ------------------------------------------------------------------------
\* Text helpers (String.prototype.split / trim / startsWith / substring)
\* ------------------------------------------------------------------------
IsSpace(tok) == tok = NL

RECURSIVE TrimStart(_)
TrimStart(s) ==
  IF s # <<>> /\ IsSpace(Head(s)) THEN TrimStart(Tail(s)) ELSE s

RECURSIVE TrimEnd(_)
TrimEnd(s) ==
  IF s # <<>> /\ IsSpace(s[Len(s)]) THEN TrimEnd(SubSeq(s, 1, Len(s) - 1)) ELSE s

Trim(s) == TrimEnd(TrimStart(s))

\* s.substring(n) with a 0-based n
Substring(s, n) == SubSeq(s, n + 1, Len(s))

\* s.split("\n"): the lines of s, the newline tokens removed
RECURSIVE SplitLines(_, _, _)
SplitLines(s, i, cur) ==
  IF i > Len(s) THEN <<cur>>
  ELSE IF s[i] = NL THEN <<cur>> \o SplitLines(s, i + 1, <<>>)
  ELSE SplitLines(s, i + 1, Append(cur, s[i]))

\* ------------------------------------------------------------------------
\* JSON.parse on token text.  A value is an object "{" ... "}" whose members
\* are payload tokens, string literals and nested objects, or an array of
\* such objects.  Inside a string literal every token except a raw newline
\* is literal text.  The result of a failed parse is ok = FALSE (the
\* SyntaxError); the result of a successful one names the upstream object
\* by its payload token (id 0: a value that carries no payload).
\* ------------------------------------------------------------------------
RECURSIVE ScanValue(_, _, _, _, _, _)
\* state: depth of braces, inside a string literal, inside the one allowed
\* top-level array, a value has been read and a separator must come next
ScanValue(s, i, depth, inStr, inArr, sep) ==
  IF i > Len(s) THEN depth = 0 /\ ~inStr /\ ~inArr
  ELSE LET t == s[i] IN
    IF inStr THEN
      IF t = NL THEN FALSE
      ELSE ScanValue(s, i + 1, depth, t # QT, inArr, sep)
    ELSE IF t = NL THEN ScanValue(s, i + 1, depth, FALSE, inArr, sep)
    ELSE IF depth = 0 THEN
      \* top level of the text, or element level of the array
      IF t = LB THEN ~sep /\ ScanValue(s, i + 1, 1, FALSE, inArr, TRUE)
      ELSE IF t = LS THEN i = 1 /\ ScanValue(s, i + 1, 0, FALSE, TRUE, FALSE)
      ELSE IF t = CM THEN inArr /\ sep /\ i < Len(s) /\ s[i + 1] # RS
                          /\ ScanValue(s, i + 1, 0, FALSE, inArr, FALSE)
      ELSE IF t = RS THEN inArr /\ i = Len(s)
                          /\ ScanValue(s, i + 1, 0, FALSE, FALSE, sep)
      ELSE FALSE
    ELSE
      IF t = LB THEN ScanValue(s, i + 1, depth + 1, FALSE, inArr, sep)
      ELSE IF t = RB THEN
        (depth > 1 \/ inArr \/ i = Len(s))
        /\ ScanValue(s, i + 1, depth - 1, FALSE, inArr, sep)
      ELSE IF t = QT THEN ScanValue(s, i + 1, depth, TRUE, inArr, sep)
      ELSE IF t \in Payloads THEN ScanValue(s, i + 1, depth, FALSE, inArr, sep)
      ELSE FALSE

\* the payload token of a parsed top-level object (0 if it has none)
RECURSIVE PayloadOf(_, _, _, _)
PayloadOf(s, i, depth, inStr) ==
  IF i > Len(s) THEN 0
  ELSE LET t == s[i] IN
    IF inStr THEN PayloadOf(s, i + 1, depth, t # QT)
    ELSE IF t = QT THEN PayloadOf(s, i + 1, depth, TRUE)
    ELSE IF t = LB THEN PayloadOf(s, i + 1, depth + 1, FALSE)
    ELSE IF t = RB THEN PayloadOf(s, i + 1, depth - 1, FALSE)
    ELSE IF t \in Payloads /\ depth = 1 THEN TokId(t)
    ELSE PayloadOf(s, i + 1, depth, FALSE)

JsonParse(s) ==
  IF s # <<>> /\ ScanValue(s, 1, 0, FALSE, FALSE, FALSE)
  THEN [ok |-> TRUE, id |-> IF s[1] = LB THEN PayloadOf(s, 1, 0, FALSE) ELSE 0]
  ELSE [ok |-> FALSE, id |-> 0]


\* ------------------------------------------------------------------------
\* StreamConverter.  The converter, its ledger slot and the output
\* controller travel through the handlers as one record st; st.thrown says
\* that an exception is propagating, in which case the remaining statements
\* of a handler are skipped until a catch block clears it.
\* ------------------------------------------------------------------------
Throw(st) == [st EXCEPT !.thrown = TRUE, !.raised = @ + 1]

\* controller.enqueue: a TypeError once the stream has been cancelled/closed
Enqueue(st, ev) ==
  IF st.thrown THEN st
  ELSE IF st.closed THEN Throw(st)
  ELSE [st EXCEPT !.out = Append(@, ev)]

emitEvent(st, ev) == Enqueue(st, ev)

\* emitEvent of an event whose index is this.blockIndex
emitIndexed(st, type, kind, text) ==
  emitEvent(st, Ev(type, st.blockIndex, kind, text, 0))

\* the statement this.<field> = value
Assign(st, field, value) ==
  IF st.thrown THEN st ELSE [st EXCEPT ![field] = value]

\* variant: the block index advances by two
NextBlock_ByTwo(st) ==
  IF st.thrown THEN st
  ELSE [st EXCEPT !.blockIndex = @ + 2, !.currentBlockType = Null]

\* the statements blockIndex++; currentBlockType = null
NextBlock(st) ==
  IF st.thrown THEN st
  ELSE [st EXCEPT !.blockIndex = @ + 1, !.currentBlockType = Null]

storeTextSignature(st, signature) == Assign(st, "lastTextSignature", signature)

\* variant: no signature delta before the stop
closeEvents_NoSignature(st) == emitIndexed(st, "content_block_stop", "", "")

\* the emits of closeCurrentBlock: the pending signature delta, then the stop
closeEvents(st) ==
  emitIndexed(
    IF st.currentBlockType = "thinking" /\ Truthy(st.currentThinkingSignature)
    THEN emitIndexed(st, "content_block_delta", "signature_delta",
                     st.currentThinkingSignature)
    ELSE st,
    "content_block_stop", "", "")

\* variant: the block index is not advanced when a block closes
closeCurrentBlock_NoAdvance(st) ==
  IF st.thrown \/ st.currentBlockType = Null THEN st
  ELSE Assign(Assign(closeEvents(st), "currentBlockType", Null),
              "currentThinkingSignature", "")

closeCurrentBlock(st) ==
  IF st.thrown \/ st.currentBlockType = Null THEN st
  ELSE Assign(NextBlock(closeEvents(st)), "currentThinkingSignature", "")

\* variant: every text part gets a block of its own
handleTextDelta_OwnBlock(st, text) ==
  IF st.thrown THEN st
  ELSE emitIndexed(
         Assign(emitIndexed(closeCurrentBlock(st), "content_block_start", "text", ""),
                "currentBlockType", "text"),
         "content_block_delta", "text_delta", text)

handleTextDelta(st, text) ==
  IF st.thrown THEN st
  ELSE emitIndexed(
         IF st.currentBlockType # "text"
         THEN Assign(emitIndexed(closeCurrentBlock(st), "content_block_start", "text", ""),
                     "currentBlockType", "text")
         ELSE st,
         "content_block_delta", "text_delta", text)

\* the tail of handleThinkingDelta: if (signature) ...; if (thinking) ...
thinkingTail(st, thinking, signature) ==
  IF st.thrown THEN st
  ELSE IF thinking # ""
  THEN emitIndexed(IF Truthy(signature)
                   THEN Assign(st, "currentThinkingSignature", signature) ELSE st,
                   "content_block_delta", "thinking_delta", thinking)
  ELSE IF Truthy(signature) THEN Assign(st, "currentThinkingSignature", signature)
  ELSE st

handleThinkingDelta(st, thinking, signature) ==
  IF st.thrown THEN st
  ELSE thinkingTail(
         IF st.currentBlockType # "thinking"
         THEN Assign(Assign(emitIndexed(closeCurrentBlock(st),
                                        "content_block_start", "thinking", ""),
                            "currentBlockType", "thinking"),
                     "currentThinkingSignature", "")
         ELSE st,
         thinking, signature)

\* variant: handleToolUse does not record that a tool call was emitted
handleToolUse_NoFlag(st, functionCall) ==
  IF st.thrown THEN st
  ELSE NextBlock(
         emitIndexed(
           emitIndexed(
             emitIndexed(closeCurrentBlock(st),
                         "content_block_start", "tool_use", functionCall.name),
             "content_block_delta", "input_json_delta", functionCall.args),
           "content_block_stop", "", ""))

\* variant: handleToolUse leaves the open block open
handleToolUse_NoClose(st, functionCall) ==
  IF st.thrown THEN st
  ELSE NextBlock(
         emitIndexed(
           emitIndexed(
             emitIndexed(Assign(st, "hasEmittedToolUse", TRUE),
                         "content_block_start", "tool_use", functionCall.name),
             "content_block_delta", "input_json_delta", functionCall.args),
           "content_block_stop", "", ""))

\* functionCall = [name, args]; args is the text JSON.stringify produces
handleToolUse(st, functionCall) ==
  IF st.thrown THEN st
  ELSE NextBlock(
         emitIndexed(
           emitIndexed(
             emitIndexed(Assign(closeCurrentBlock(st), "hasEmittedToolUse", TRUE),
                         "content_block_start", "tool_use", functionCall.name),
             "content_block_delta", "input_json_delta", functionCall.args),
           "content_block_stop", "", ""))

\* the dispatch of processPart after the signature has been stored
dispatchPart(st, part) ==
  IF part.kind = "text" THEN
    IF part.text = "" /\ Truthy(part.sig) THEN st
    ELSE IF part.thought THEN handleThinkingDelta(st, part.text, part.sig)
    ELSE IF part.text # "" THEN handleTextDelta(st, part.text)
    ELSE st
  ELSE IF part.kind = "functionCall"
  THEN handleToolUse(st, [name |-> part.name, args |-> part.text])
  ELSE st

processPart(st, part) ==
  IF st.thrown THEN st
  ELSE IF part.kind = "null" THEN Throw(st)
  ELSE dispatchPart(IF Truthy(part.sig) THEN storeTextSignature(st, part.sig) ELSE st,
                    part)

emitMessageStart(st, promptTokenCount) ==
  emitEvent(emitEvent(st, Ev("message_start", -1, "", "", Coalesce(promptTokenCount, 0))),
            Ev("ping", -1, "", "", 0))

RECURSIVE processParts(_, _, _)
processParts(st, parts, i) ==
  IF i > Len(parts) \/ st.thrown THEN st
  ELSE processParts(processPart(st, parts[i]), parts, i + 1)

\* if (chunk.usageMetadata) { inputTokens = ...; outputTokens = ... }
trackUsage(st, usage) ==
  IF st.thrown \/ ~usage.present THEN st
  ELSE [st EXCEPT !.inputTokens = Coalesce(usage.prompt, @),
                  !.outputTokens = Coalesce(usage.cand, 0) + Coalesce(usage.thoughts, 0)]

processChunk(st, chunk) ==
  IF st.thrown THEN st
  ELSE IF chunk.isNull THEN Throw(st)
  ELSE processParts(
         trackUsage(IF ~st.messageStarted
                    THEN Assign(emitMessageStart(st, chunk.usage.prompt),
                                "messageStarted", TRUE)
                    ELSE st,
                    chunk.usage),
         chunk.parts, 1)


\* JSON text -> chunk -> events; the try block covers the parse and the
\* whole of processChunk, and the catch block is empty.  st.objs maps the
\* payload token of a parsed text to the value JSON.parse returns for it.
processBufferedJson(st, jsonStr) ==
  IF st.thrown THEN st
  ELSE
    LET t0 == Trim(jsonStr)
        cleaned == IF t0 # <<>> /\ Head(t0) = CM THEN Trim(Substring(t0, 1)) ELSE t0
    IN IF cleaned = <<>> \/ cleaned = <<LS>> \/ cleaned = <<RS>> THEN st
       ELSE
         LET r == JsonParse(cleaned)
         IN IF ~r.ok THEN st
            ELSE [processChunk([st EXCEPT !.dispatched = Append(@, r.id)],
                               IF r.id \in 1..Len(st.objs) THEN st.objs[r.id]
                               ELSE EmptyChunk)
                  EXCEPT !.thrown = FALSE]

RECURSIVE extractLoop(_, _, _, _, _)
extractLoop(st, inner, i, depth, start) ==
  IF i > Len(inner) \/ st.thrown THEN st
  ELSE IF inner[i] = LB THEN
    extractLoop(st, inner, i + 1, depth + 1, IF depth = 0 THEN i ELSE start)
  ELSE IF inner[i] = RB THEN
    IF depth - 1 = 0 /\ start >= 1
    THEN extractLoop(processBufferedJson(st, Trim(SubSeq(inner, start, i))),
                     inner, i + 1, 0, 0)
    ELSE extractLoop(st, inner, i + 1, depth - 1, start)
  ELSE extractLoop(st, inner, i + 1, depth, start)

\* start is a 1-based position here, 0 standing for the code's -1
extractJsonFromArray(st, text) ==
  LET i1 == IF text # <<>> /\ Head(text) = LS THEN Tail(text) ELSE text
      inner == IF i1 # <<>> /\ i1[Len(i1)] = RS THEN SubSeq(i1, 1, Len(i1) - 1) ELSE i1
  IN extractLoop(st, inner, 1, 0, 0)

processLine(st, line) ==
  LET trimmedLine == Trim(line)
  IN IF st.thrown \/ trimmedLine = <<>> THEN st
     ELSE IF Head(trimmedLine) = DT THEN
       LET jsonStr == Trim(Substring(trimmedLine, 1))
       IN IF jsonStr # <<>> THEN processBufferedJson(st, jsonStr) ELSE st
     ELSE IF trimmedLine = <<LS>> \/ trimmedLine = <<RS>> \/ trimmedLine = <<CM>> THEN st
     ELSE IF Head(trimmedLine) = LS THEN extractJsonFromArray(st, trimmedLine)
     ELSE processBufferedJson(st, trimmedLine)

RECURSIVE processLines(_, _, _)
processLines(st, lines, i) ==
  IF i > Len(lines) \/ st.thrown THEN st
  ELSE processLines(processLine(st, lines[i]), lines, i + 1)

processBuffer(st, buf) == processLines(st, SplitLines(buf, 1, <<>>), 1)

\* the offset after the last "}" at which the brace depth is 0, or -1
RECURSIVE findLoop(_, _, _, _)
findLoop(buf, i, depth, lastIndex) ==
  IF i > Len(buf) THEN lastIndex
  ELSE IF buf[i] = LB THEN findLoop(buf, i + 1, depth + 1, lastIndex)
  ELSE IF buf[i] = RB THEN
    findLoop(buf, i + 1, depth - 1, IF depth - 1 = 0 THEN i ELSE lastIndex)
  ELSE findLoop(buf, i + 1, depth, lastIndex)

findLastCompleteJson(buf) == findLoop(buf, 1, 0, -1)

emitMessageEnd(st) ==
  IF st.thrown THEN st
  ELSE
    LET s1 == IF st.blockIndex = 0 /\ ~st.messageStarted
              THEN LET m == emitMessageStart(st, 0)
                       b == emitEvent(m, Ev("content_block_start", 0, "text", "", 0))
                   IN emitEvent(b, Ev("content_block_stop", 0, "", "", 0))
              ELSE st
        stopReason == IF st.hasEmittedToolUse THEN "tool_use" ELSE "end_turn"
        s2 == emitEvent(s1, Ev("message_delta", -1, stopReason, "", st.outputTokens))
    IN emitEvent(s2, Ev("message_stop", -1, "", "", 0))

\* controller.close(): a TypeError on a stream that is already closed
ControllerClose(st) ==
  IF st.thrown THEN st
  ELSE IF st.closed THEN Throw(st)
  ELSE [st EXCEPT !.closed = TRUE]

\* the catch block of pull(): one error event, then close
CatchBlock(st) ==
  ControllerClose(Enqueue([st EXCEPT !.thrown = FALSE],
                          Ev("error", -1, "api_error", "", 0)))

\* the try of pull(): an exception of the done branch reaches the catch block
CatchIfThrown(st) == IF st.thrown THEN CatchBlock(st) ELSE st


\* ------------------------------------------------------------------------
\* The upstream body: response objects, their JSON text, the three framings
\* ------------------------------------------------------------------------
Variants == {"plain", "nested", "strOpen", "strClose"}
Framings == {"sse", "ndjson", "array", "arrayLines"}

\* the JSON text of object k; strOpen / strClose hold a string value that
\* contains a "{" / a "}"
Ser(k, v) ==
  IF v = "plain" THEN <<LB, PayloadTok[k], RB>>
  ELSE IF v = "nested" THEN <<LB, PayloadTok[k], LB, RB, RB>>
  ELSE IF v = "strOpen" THEN <<LB, PayloadTok[k], QT, LB, QT, RB>>
  ELSE <<LB, PayloadTok[k], QT, RB, QT, RB>>

RECURSIVE WireFrom(_, _, _, _)
WireFrom(f, vs, k, n) ==
  IF k > n THEN (IF f = "array" THEN <<RS>> ELSE IF f = "arrayLines" THEN <<RS>> ELSE <<>>)
  ELSE
    (IF f = "sse" THEN <<DT>> \o Ser(k, vs[k]) \o <<NL, NL>>
     ELSE IF f = "ndjson" THEN Ser(k, vs[k]) \o <<NL>>
     ELSE IF f = "array" THEN (IF k = 1 THEN <<LS>> ELSE <<CM>>) \o Ser(k, vs[k])
     ELSE (IF k = 1 THEN <<LS>> ELSE <<CM>>) \o Ser(k, vs[k]) \o <<NL>>)
    \o WireFrom(f, vs, k + 1, n)

\* the object sent as k-th object of a framed body: one text part
SimpleObj(k) == Chunk(FALSE, NoUsage, <<TextPart(PayloadTok[k])>>)

SeqsUpTo(S, n) == UNION {[1..k -> S] : k \in 0..n}

RECURSIVE TotalParts(_)
TotalParts(os) == IF os = <<>> THEN 0 ELSE Len(Head(os).parts) + TotalParts(Tail(os))

\* the objects the upstream may send as one SSE event of a part-level run
EventObjs(budget) ==
  {NullChunk}
  \cup {Chunk(FALSE, NoUsage, ps) : ps \in SeqsUpTo(PartPalette, budget)}
  \cup {Chunk(FALSE, u, ps) : u \in {Usage1, Usage2},
                              ps \in SeqsUpTo(PartPalette, IF budget > 1 THEN 1 ELSE budget)}

\* ------------------------------------------------------------------------
\* convertStream: the pull loop
\* ------------------------------------------------------------------------
Cur ==
  [blockIndex |-> blockIndex, messageStarted |-> messageStarted,
   currentBlockType |-> currentBlockType,
   currentThinkingSignature |-> currentThinkingSignature,
   hasEmittedToolUse |-> hasEmittedToolUse,
   inputTokens |-> inputTokens, outputTokens |-> outputTokens,
   lastTextSignature |-> lastTextSignature,
   out |-> out, closed |-> cancelled, thrown |-> FALSE,
   raised |-> raised, dispatched |-> dispatched, objs |-> objs]

Commit(st) ==
  /\ blockIndex' = st.blockIndex
  /\ messageStarted' = st.messageStarted
  /\ currentBlockType' = st.currentBlockType
  /\ currentThinkingSignature' = st.currentThinkingSignature
  /\ hasEmittedToolUse' = st.hasEmittedToolUse
  /\ inputTokens' = st.inputTokens
  /\ outputTokens' = st.outputTokens
  /\ lastTextSignature' = st.lastTextSignature
  /\ out' = st.out
  /\ raised' = st.raised
  /\ dispatched' = st.dispatched

converterVars ==
  << blockIndex, messageStarted, currentBlockType, currentThinkingSignature,
     hasEmittedToolUse, inputTokens, outputTokens, lastTextSignature,
     out, raised, dispatched >>

InitConverter ==
  /\ blockIndex = 0
  /\ messageStarted = FALSE
  /\ currentBlockType = Null
  /\ currentThinkingSignature = ""
  /\ hasEmittedToolUse = FALSE
  /\ inputTokens = 0
  /\ outputTokens = 0
  /\ lastTextSignature = Null
  /\ out = <<>>
  /\ raised = 0
  /\ dispatched = <<>>

NoCall == [op |-> "none", strict |-> FALSE]

\* the objects the router has created and what each request refers to:
\* no object before the first request is handled
NoServer ==
  [objects |-> <<>>,
   requests |-> [r \in 1..MaxRequests |->
                   [phase |-> "accepted", ledger |-> 0, requestConverter |-> 0,
                    streamConverter |-> 0]]]

InitService ==
  /\ server = NoServer
  /\ store = <<>>
  /\ toolNameMap = <<>>
  /\ call = NoCall
  /\ arg = <<>>
  /\ result = <<>>

InitStream ==
  /\ InitService
  /\ pc = "start"
  /\ buffer = <<>>
  /\ chunksRead = 0
  /\ cancelled = FALSE
  /\ readerCancelled = FALSE
  /\ lateChunk = FALSE
  /\ reads = 0
  /\ pulls = 0
  /\ InitConverter
  /\ \/ /\ framing = "sseEvent"
        /\ objs = <<>>
        /\ wire = <<>>
     \/ \E f \in Framings, n \in 1..MaxObjs :
          \E vs \in [1..n -> Variants] :
            /\ framing = f
            /\ objs = [k \in 1..n |-> SimpleObj(k)]
            /\ wire = WireFrom(f, vs, 1, n)

\* the stream calls pull(); the loop issues its first reader.read()
Pull ==
  /\ pc = "start"
  /\ ~cancelled
  /\ pc' = "awaitRead"
  /\ pulls' = pulls + 1
  /\ reads' = reads + 1
  /\ UNCHANGED << wire, objs, framing, chunksRead, buffer, converterVars,
                  cancelled, readerCancelled, lateChunk, serviceVars >>

\* pull() returns: the stream is closed, or the promise is rejected
Finish(st) ==
  Commit(st) /\ pc' = (IF st.thrown THEN "rejected" ELSE "closed")

\* after processBuffer: an exception goes to the catch block, else the loop
\* issues the next reader.read()
EndPass(st) ==
  IF st.thrown
  THEN Finish(CatchBlock(st)) /\ reads' = reads
  ELSE Commit(st) /\ pc' = "awaitRead" /\ reads' = reads + 1

\* buffer = buffer.substring(lastCompleteIndex) if lastCompleteIndex >= 0
Remainder(buf, lastCompleteIndex) ==
  IF lastCompleteIndex >= 0 THEN Substring(buf, lastCompleteIndex) ELSE buf

\* one pass of the loop body on a chunk, up to the next reader.read()
LoopBody(chunk, os) ==
  /\ buffer' = Remainder(buffer \o chunk, findLastCompleteJson(buffer \o chunk))
  /\ EndPass(processBuffer([Cur EXCEPT !.objs = os], buffer \o chunk))

\* the pending read resolves with the next bytes of a framed body
ReadChunk ==
  /\ pc = "awaitRead"
  /\ framing # "sseEvent"
  /\ ~readerCancelled \/ lateChunk
  /\ \E m \in 1..Len(wire) :
       /\ chunksRead + 1 < MaxChunks \/ m = Len(wire)
       /\ wire' = SubSeq(wire, m + 1, Len(wire))
       /\ LoopBody(SubSeq(wire, 1, m), objs)
  /\ chunksRead' = chunksRead + 1
  /\ lateChunk' = FALSE
  /\ UNCHANGED << objs, framing, cancelled, readerCancelled, pulls, serviceVars >>

\* the pending read resolves with one SSE event holding a new object
ReadEvent ==
  /\ pc = "awaitRead"
  /\ framing = "sseEvent"
  /\ ~readerCancelled \/ lateChunk
  /\ Len(objs) < MaxObjs
  /\ \E o \in EventObjs(MaxParts - TotalParts(objs)) :
       /\ objs' = Append(objs, o)
       /\ LoopBody(<<DT>> \o Ser(Len(objs) + 1, "plain") \o <<NL, NL>>, Append(objs, o))
  /\ chunksRead' = chunksRead + 1
  /\ lateChunk' = FALSE
  /\ UNCHANGED << wire, framing, cancelled, readerCancelled, pulls, serviceVars >>

\* the pending read resolves with done: the end of the upstream body, or
\* the reader has been cancelled
ReadDone ==
  /\ pc = "awaitRead"
  /\ \/ ~readerCancelled /\ wire = <<>>
     \/ readerCancelled /\ ~lateChunk
  /\ Finish(CatchIfThrown(ControllerClose(emitMessageEnd(closeCurrentBlock(
              IF Trim(buffer) # <<>> THEN processBufferedJson(Cur, buffer) ELSE Cur)))))
  /\ UNCHANGED << wire, objs, framing, chunksRead, buffer,
                  cancelled, readerCancelled, lateChunk, reads, pulls, serviceVars >>

\* the pending read rejects (the upstream connection fails)
ReadError ==
  /\ pc = "awaitRead"
  /\ ~readerCancelled
  /\ Finish(CatchBlock(Throw(Cur)))
  /\ UNCHANGED << wire, objs, framing, chunksRead, buffer,
                  cancelled, readerCancelled, lateChunk, reads, pulls, serviceVars >>

\* variant: cancel() does not cancel the upstream reader
Cancel_NoReaderCancel ==
  /\ pc \in {"start", "awaitRead"}
  /\ ~cancelled
  /\ cancelled' = TRUE
  /\ lateChunk' = FALSE
  /\ UNCHANGED << pc, wire, objs, framing, chunksRead, buffer, converterVars,
                  readerCancelled, reads, pulls, serviceVars >>

\* the consumer cancels the output stream: the stream is closed, then the
\* source's cancel() runs reader.cancel().  A read that had already been
\* resolved with a chunk is still delivered to the suspended pull.
Cancel ==
  /\ pc \in {"start", "awaitRead"}
  /\ ~cancelled
  /\ cancelled' = TRUE
  /\ readerCancelled' = TRUE
  /\ lateChunk' \in IF pc = "awaitRead"
                       /\ (wire # <<>> \/ (framing = "sseEvent" /\ Len(objs) < MaxObjs))
                    THEN BOOLEAN ELSE {FALSE}
  /\ UNCHANGED << pc, wire, objs, framing, chunksRead, buffer, converterVars,
                  reads, pulls, serviceVars >>

Next == Pull \/ ReadChunk \/ ReadEvent \/ ReadDone \/ ReadError \/ Cancel

Init == InitStream

Spec == Init /\ [][Next]_vars


\* ------------------------------------------------------------------------
\* Properties of the stream
\* ------------------------------------------------------------------------
HasError(evs) == \E i \in 1..Len(evs) : evs[i].type = "error"

\* the stream ended by the done branch: closed by the code, no error event
NormalEnd == pc = "closed" /\ ~cancelled /\ ~HasError(out)

\* evs[i..last] is a sequence of blocks with indices idx, idx + 1, ...,
\* each a start, deltas (at least one if needDelta) and a stop
RECURSIVE DeltasEnd(_, _, _, _)
DeltasEnd(evs, j, last, idx) ==
  IF j <= last /\ evs[j].type = "content_block_delta" /\ evs[j].index = idx
  THEN DeltasEnd(evs, j + 1, last, idx) ELSE j

RECURSIVE BlocksFrom(_, _, _, _, _)
BlocksFrom(evs, i, last, idx, needDelta) ==
  IF i > last THEN TRUE
  ELSE
    /\ evs[i].type = "content_block_start"
    /\ evs[i].index = idx
    /\ LET j == DeltasEnd(evs, i + 1, last, idx)
       IN /\ j <= last
          /\ evs[j].type = "content_block_stop"
          /\ evs[j].index = idx
          /\ needDelta => j > i + 1
          /\ BlocksFrom(evs, j + 1, last, idx + 1, needDelta)

MatchesGrammar(evs, needDelta) ==
  /\ Len(evs) >= 4
  /\ evs[1].type = "message_start"
  /\ evs[2].type = "ping"
  /\ evs[Len(evs) - 1].type = "message_delta"
  /\ evs[Len(evs)].type = "message_stop"
  /\ BlocksFrom(evs, 3, Len(evs) - 2, 0, needDelta)

\* C1 as stated: a stream that ends without an error event matches
\* message_start, ping, (content_block_start, content_block_delta+,
\* content_block_stop)*, message_delta, message_stop, the blocks indexed
\* 0, 1, 2, ...
C1_OrderingWithDelta == NormalEnd => MatchesGrammar(out, TRUE)

\* C1 amended: the same ordering, but a block may be closed without any
\* delta (content_block_delta* instead of content_block_delta+)
C1_Ordering == NormalEnd => MatchesGrammar(out, FALSE)

\* a normal end with two closed blocks at least
C1_Witness ==
  /\ NormalEnd
  /\ \E i \in 1..Len(out) : out[i].type = "content_block_stop" /\ out[i].index = 1

Count(seq, x) == Cardinality({i \in 1..Len(seq) : seq[i] = x})

\* C2: every complete upstream object is dispatched to processChunk at most
\* once, whatever the split into chunks and whatever the strings hold
C2_DispatchedAtMostOnce ==
  \A k \in 1..Len(objs) : Count(dispatched, k) <= 1

\* the events of a body whose objects are each dispatched once, in order
RECURSIVE processChunks(_, _, _)
processChunks(st, os, i) ==
  IF i > Len(os) THEN st
  ELSE processChunks([processChunk(st, os[i]) EXCEPT !.thrown = FALSE], os, i + 1)

InitialConverter ==
  [blockIndex |-> 0, messageStarted |-> FALSE, currentBlockType |-> Null,
   currentThinkingSignature |-> "", hasEmittedToolUse |-> FALSE,
   inputTokens |-> 0, outputTokens |-> 0, lastTextSignature |-> Null,
   out |-> <<>>, closed |-> FALSE, thrown |-> FALSE, raised |-> 0,
   dispatched |-> <<>>, objs |-> <<>>]

ReferenceOut(os) ==
  emitMessageEnd(closeCurrentBlock(processChunks(InitialConverter, os, 1))).out

\* C3: in each of the three framings and for every split into chunks the
\* emitted events are those of the object sequence itself, and no complete
\* object is left undispatched
C3_FramingIndependent ==
  (NormalEnd /\ framing \in Framings) =>
     /\ \A k \in 1..Len(objs) : Count(dispatched, k) >= 1
     /\ out = ReferenceOut(objs)

\* C8: an exception raised while the stream is consumed is reported as
\* exactly one error event, the last event, and the stream is then closed
C8_ExceptionReported ==
  (pc \in {"closed", "rejected"} /\ ~cancelled /\ raised > 0) =>
     /\ pc = "closed"
     /\ out # <<>>
     /\ out[Len(out)].type = "error"
     /\ Cardinality({i \in 1..Len(out) : out[i].type = "error"}) = 1

\* C9: cancelling the output cancels the upstream reader, and from then on
\* nothing is added to the output, whatever the suspended pull still does
C9_CancelPropagates ==
  [][ /\ cancelled' => readerCancelled'
      /\ cancelled => out' = out ]_vars

\* the pull that was suspended at cancel time has run to its end after
\* events had been emitted, and its attempts to emit have failed
C9_Witness ==
  cancelled /\ readerCancelled /\ pc = "rejected" /\ out # <<>> /\ raised > 0

\* C10: the number of upstream reads never exceeds the number of pulls
C10_ReadsWithinPulls == reads <= pulls

\* C11: a stream that ends normally holds a content_block_start and a
\* content_block_stop before its message_delta
C11_AtLeastOneBlock ==
  NormalEnd =>
    \E i, j, k \in 1..Len(out) :
      /\ i < j /\ j < k
      /\ out[i].type = "content_block_start"
      /\ out[j].type = "content_block_stop"
      /\ out[k].type = "message_delta"


\* the objects of the body that carried usage metadata
UsageObjs == {i \in 1..Len(objs) : ~objs[i].isNull /\ objs[i].usage.present}

\* C14 (streaming): the message_delta of a stream that ends normally reports
\* candidatesTokenCount + thoughtsTokenCount of the last object that
\* carried usage metadata, 0 if none did
C14_StreamOutputTokens ==
  NormalEnd =>
    out[Len(out) - 1].n =
      IF UsageObjs = {} THEN 0
      ELSE LET l == CHOOSE i \in UsageObjs : \A j \in UsageObjs : j <= i
           IN Coalesce(objs[l].usage.cand, 0) + Coalesce(objs[l].usage.thoughts, 0)

\* a tool_use block has been opened in the events evs
HasToolUse(evs) ==
  \E i \in 1..Len(evs) : evs[i].type = "content_block_start" /\ evs[i].kind = "tool_use"

\* C12: the message_delta of a stream that ends normally carries stop_reason
\* tool_use exactly if a tool_use block was emitted before it, else end_turn
C12_StopReason ==
  NormalEnd =>
    /\ Len(out) >= 2
    /\ out[Len(out) - 1].type = "message_delta"
    /\ out[Len(out) - 1].kind = IF HasToolUse(out) THEN "tool_use" ELSE "end_turn"

\* a tool call was followed by a text block, and the stream ended with
\* stop_reason tool_use
C12_Witness ==
  /\ NormalEnd
  /\ \E i, j \in 1..Len(out) :
       /\ i < j
       /\ out[i].type = "content_block_start" /\ out[i].kind = "tool_use"
       /\ out[j].type = "content_block_start" /\ out[j].kind = "text"
  /\ out[Len(out) - 1].kind = "tool_use"


\* ------------------------------------------------------------------------
\* ThoughtSignatureService: the ledger.  Indices are 0-based as in the code.
\* ------------------------------------------------------------------------
\* a number as the template literal prints it: its decimal digits
DigitChar == <<"0", "1", "2", "3", "4", "5", "6", "7", "8", "9">>

RECURSIVE Digits(_)
Digits(n) ==
  IF n < 10 THEN <<DigitChar[n + 1]>>
  ELSE Digits(n \div 10) \o <<DigitChar[(n % 10) + 1]>>

\* variant: the two indices are printed without the colon between them
key_NoSeparator(turnIndex, partIndex) == Digits(turnIndex) \o Digits(partIndex)

\* the Map key `${turnIndex}:${partIndex}`
key(turnIndex, partIndex) == Digits(turnIndex) \o <<":">> \o Digits(partIndex)

store_signature(s, turnIndex, partIndex, signature) ==
  (key(turnIndex, partIndex) :> signature) @@ s

getSignature(s, turnIndex, partIndex) ==
  IF key(turnIndex, partIndex) \in DOMAIN s THEN s[key(turnIndex, partIndex)] ELSE Undefined

\* the ledger as a value: the Map and the last text-part signature
Ledger(s, last) == [store |-> s, lastTextSignature |-> last]

\* extractFromContents: the loop over the parts of the turn at index t
RECURSIVE extractParts(_, _, _, _)
extractParts(led, t, parts, p) ==
  IF p >= Len(parts) THEN led
  ELSE LET part == parts[p + 1] IN
       extractParts(
         IF Truthy(part.sig)
         THEN Ledger(store_signature(led.store, t, p, part.sig),
                     IF part.kind = "text" THEN part.sig ELSE led.lastTextSignature)
         ELSE led,
         t, parts, p + 1)

RECURSIVE extractTurns(_, _, _)
extractTurns(led, contents, t) ==
  IF t >= Len(contents) THEN led
  ELSE extractTurns(IF contents[t + 1].role # "model" THEN led
                    ELSE extractParts(led, t, contents[t + 1].parts, 0),
                    contents, t + 1)

\* variant: the last-text slot is left as it was
extractFromContents_NoTextSlot(led, contents) ==
  Ledger(extractTurns(led, contents, 0).store, led.lastTextSignature)

extractFromContents(led, contents) == extractTurns(led, contents, 0)

Turn(role, parts) == [role |-> role, parts |-> parts]

\* variant: the first function call always gets the dummy signature
RECURSIVE ensureTurn_AlwaysDummy(_, _, _, _, _)
ensureTurn_AlwaysDummy(s, t, parts, p, firstFCFound) ==
  IF p > Len(parts) THEN parts
  ELSE IF parts[p].kind = "functionCall" /\ ~firstFCFound THEN
    ensureTurn_AlwaysDummy(s, t,
      IF ~Truthy(parts[p].sig)
      THEN [parts EXCEPT ![p].sig = DUMMY_THOUGHT_SIGNATURE]
      ELSE parts,
      p + 1, TRUE)
  ELSE ensureTurn_AlwaysDummy(s, t, parts, p + 1, firstFCFound)

\* variant: every function call without a token gets one
RECURSIVE ensureTurn_EveryCall(_, _, _, _, _)
ensureTurn_EveryCall(s, t, parts, p, firstFCFound) ==
  IF p > Len(parts) THEN parts
  ELSE IF parts[p].kind = "functionCall" THEN
    ensureTurn_EveryCall(s, t,
      IF ~Truthy(parts[p].sig)
      THEN LET stored == getSignature(s, t, p - 1)
           IN [parts EXCEPT ![p].sig = IF stored # Undefined THEN stored
                                        ELSE DUMMY_THOUGHT_SIGNATURE]
      ELSE parts,
      p + 1, TRUE)
  ELSE ensureTurn_EveryCall(s, t, parts, p + 1, firstFCFound)

\* the inner loop of ensureSignatures over the parts of model turn t (0-based)
RECURSIVE ensureTurn(_, _, _, _, _)
ensureTurn(s, t, parts, p, firstFCFound) ==
  IF p > Len(parts) THEN parts
  ELSE IF parts[p].kind = "functionCall" /\ ~firstFCFound THEN
    ensureTurn(s, t,
      IF ~Truthy(parts[p].sig)
      THEN LET stored == getSignature(s, t, p - 1)
           IN [parts EXCEPT ![p].sig = IF stored # Undefined THEN stored
                                        ELSE DUMMY_THOUGHT_SIGNATURE]
      ELSE parts,
      p + 1, TRUE)
  ELSE ensureTurn(s, t, parts, p + 1, firstFCFound)

ensureSignatures(s, contents, isGemini3) ==
  IF ~isGemini3 THEN contents
  ELSE [t \in 1..Len(contents) |->
          IF contents[t].role # "model" THEN contents[t]
          ELSE Turn("model", ensureTurn(s, t - 1, contents[t].parts, 1, FALSE))]

\* ------------------------------------------------------------------------
\* RequestConverter.convertMessages
\* ------------------------------------------------------------------------
\* an Anthropic message: content is a string (isString) or a block array
Message(role, isString, text, content) ==
  [role |-> role, isString |-> isString, text |-> text, content |-> content]

\* an Anthropic content block; id is the tool_use id / the tool_use_id
Block(type, text, id, name) == [type |-> type, text |-> text, id |-> id, name |-> name]

\* variant: the id is returned whatever the map holds
resolveToolName_IdOnly(map, toolUseId) == toolUseId

resolveToolName(map, toolUseId) ==
  IF toolUseId \in DOMAIN map THEN map[toolUseId] ELSE toolUseId

\* buildToolNameMap: the inner loop over the blocks of one message
RECURSIVE mapBlocks(_, _, _)
mapBlocks(map, content, i) ==
  IF i > Len(content) THEN map
  ELSE mapBlocks(IF content[i].type = "tool_use"
                 THEN (content[i].id :> content[i].name) @@ map
                 ELSE map,
                 content, i + 1)

RECURSIVE mapMessages(_, _, _)
mapMessages(map, messages, i) ==
  IF i > Len(messages) THEN map
  ELSE mapMessages(IF messages[i].isString THEN map
                   ELSE mapBlocks(map, messages[i].content, 1),
                   messages, i + 1)

\* the map after toolNameMap.clear() and the scan of all messages
buildToolNameMap(messages) == mapMessages(<<>>, messages, 1)

convertToolResult(map, block) ==
  Turn("user", <<Part("functionResponse", block.text, FALSE, Undefined,
                      resolveToolName(map, block.id))>>)

convertImageBlock(block) == Part("inlineData", block.text, FALSE, Undefined, "")

\* the loop over message.content with its three accumulators
RECURSIVE convertBlocks(_, _, _, _, _, _, _, _)
convertBlocks(map, role, isGemini3, content, i, textAndImageParts, toolUseParts, toolResultContents) ==
  IF i > Len(content)
  THEN [textAndImageParts |-> textAndImageParts, toolUseParts |-> toolUseParts,
        toolResultContents |-> toolResultContents]
  ELSE LET block == content[i] IN
    IF block.type = "text" THEN
      convertBlocks(map, role, isGemini3, content, i + 1,
                    Append(textAndImageParts, TextPart(block.text)),
                    toolUseParts, toolResultContents)
    ELSE IF block.type = "image" THEN
      convertBlocks(map, role, isGemini3, content, i + 1,
                    Append(textAndImageParts, convertImageBlock(block)),
                    toolUseParts, toolResultContents)
    ELSE IF block.type = "tool_use" THEN
      LET fcPart == Part("functionCall", block.text, FALSE,
                         IF role = "model" /\ isGemini3 /\ Len(toolUseParts) = 0
                         THEN DUMMY_THOUGHT_SIGNATURE ELSE Undefined,
                         block.name)
      IN convertBlocks(map, role, isGemini3, content, i + 1,
                       textAndImageParts, Append(toolUseParts, fcPart), toolResultContents)
    ELSE IF block.type = "tool_result" THEN
      convertBlocks(map, role, isGemini3, content, i + 1,
                    textAndImageParts, toolUseParts,
                    Append(toolResultContents, convertToolResult(map, block)))
    ELSE convertBlocks(map, role, isGemini3, content, i + 1,
                       textAndImageParts, toolUseParts, toolResultContents)

convertSingleMessage(map, message, isGemini3) ==
  LET role == IF message.role = "assistant" THEN "model" ELSE "user"
  IN IF message.isString THEN <<Turn(role, <<TextPart(message.text)>>)>>
     ELSE
       LET acc == convertBlocks(map, role, isGemini3, message.content, 1, <<>>, <<>>, <<>>)
           allParts == acc.textAndImageParts \o acc.toolUseParts
           results ==
             IF role = "model"
             THEN (IF Len(allParts) > 0 THEN <<Turn("model", allParts)>> ELSE <<>>)
             ELSE (IF Len(acc.textAndImageParts) > 0
                   THEN <<Turn("user", acc.textAndImageParts)>> ELSE <<>>)
                  \o acc.toolResultContents
       IN IF Len(results) = 0 THEN <<Turn(role, <<TextPart("")>>)>> ELSE results

\* variant: the turns of later messages come first
RECURSIVE convertEach_Reversed(_, _, _, _)
convertEach_Reversed(map, messages, isGemini3, i) ==
  IF i > Len(messages) THEN <<>>
  ELSE convertEach_Reversed(map, messages, isGemini3, i + 1)
       \o convertSingleMessage(map, messages[i], isGemini3)

RECURSIVE convertEach(_, _, _, _)
convertEach(map, messages, isGemini3, i) ==
  IF i > Len(messages) THEN <<>>
  ELSE convertSingleMessage(map, messages[i], isGemini3)
       \o convertEach(map, messages, isGemini3, i + 1)

convertMessages(s, map, messages, isGemini3) ==
  LET contents == convertEach(map, messages, isGemini3, 1)
  IN IF isGemini3 THEN ensureSignatures(s, contents, TRUE) ELSE contents

\* ------------------------------------------------------------------------
\* ResponseConverter.convertParts: the blocks and the ledger slot it leaves
\* ------------------------------------------------------------------------
ContentBlock(type, text, signature, name) ==
  [type |-> type, text |-> text, signature |-> signature, name |-> name]

RECURSIVE convertPartsLoop(_, _, _, _)
convertPartsLoop(parts, i, blocks, lastSig) ==
  IF i > Len(parts) THEN [blocks |-> blocks, lastTextSignature |-> lastSig]
  ELSE LET part == parts[i]
           sig == part.sig
           stored == IF Truthy(sig) THEN sig ELSE lastSig
       IN
    IF part.kind = "text" THEN
      IF part.text = "" /\ Truthy(sig) THEN convertPartsLoop(parts, i + 1, blocks, sig)
      ELSE IF part.thought THEN
        convertPartsLoop(parts, i + 1,
          Append(blocks, ContentBlock("thinking", part.text,
                                      IF sig = Undefined THEN "" ELSE sig, "")),
          stored)
      ELSE IF part.text # "" THEN
        convertPartsLoop(parts, i + 1,
          Append(blocks, ContentBlock("text", part.text, "", "")), stored)
      ELSE convertPartsLoop(parts, i + 1, blocks, stored)
    ELSE IF part.kind = "functionCall" THEN
      convertPartsLoop(parts, i + 1,
        Append(blocks, ContentBlock("tool_use", part.text, "", part.name)), stored)
    ELSE convertPartsLoop(parts, i + 1, blocks, lastSig)

\* variant: an empty result is returned as it is
convertParts_NoFallback(parts, lastSig) ==
  convertPartsLoop(parts, 1, <<>>, lastSig)

convertParts(parts, lastSig) ==
  LET r == convertPartsLoop(parts, 1, <<>>, lastSig)
  IN IF Len(r.blocks) = 0
     THEN [r EXCEPT !.blocks = <<ContentBlock("text", "", "", "")>>]
     ELSE r

\* variant: the upstream finish reason alone decides
convertFinishReason_NoOverride(reason, content) ==
  IF reason = "STOP" THEN "end_turn"
  ELSE IF reason = "MAX_TOKENS" THEN "max_tokens"
  ELSE "end_turn"

convertFinishReason(reason, content) ==
  IF \E i \in 1..Len(content) : content[i].type = "tool_use" THEN "tool_use"
  ELSE IF reason = "STOP" THEN "end_turn"
  ELSE IF reason = "MAX_TOKENS" THEN "max_tokens"
  ELSE "end_turn"

\* meta is response.usageMetadata (NoUsage if the response has none)
convertUsage(meta) ==
  [input_tokens |-> Coalesce(meta.prompt, 0),
   output_tokens |-> Coalesce(meta.cand, 0) + Coalesce(meta.thoughts, 0)]

MessagesResponse(content, stop_reason, usage) ==
  [content |-> content, stop_reason |-> stop_reason, usage |-> usage]

buildEmptyResponse ==
  MessagesResponse(<<ContentBlock("text", "", "", "")>>, "end_turn",
                   [input_tokens |-> 0, output_tokens |-> 0])

\* a Gemini response: its first candidate, if any, and its usage metadata
Response(hasCandidate, finishReason, parts, usage) ==
  [hasCandidate |-> hasCandidate, finishReason |-> finishReason,
   parts |-> parts, usage |-> usage]

\* ResponseConverter.convert: the message returned and the text slot of the
\* ledger after the call
ResponseConverter_convert(response, lastSig) ==
  IF ~response.hasCandidate
  THEN [message |-> buildEmptyResponse, lastTextSignature |-> lastSig]
  ELSE LET r == convertParts(response.parts, lastSig)
       IN [message |-> MessagesResponse(r.blocks,
                                        convertFinishReason(response.finishReason, r.blocks),
                                        convertUsage(response.usage)),
           lastTextSignature |-> r.lastTextSignature]


\* ------------------------------------------------------------------------
\* The service-level runs: a ledger and the converters that share it,
\* called with inputs drawn from bounded sets
\* ------------------------------------------------------------------------
FCPart(sig, name) == Part("functionCall", "{}", FALSE, sig, name)
ResponsePart == Part("functionResponse", "r", FALSE, Undefined, "f")

\* parts of the model turns and the user turns handed to ensureSignatures
ModelTurnParts == {TextPart("x"), FCPart(Undefined, "f"), FCPart("s2", "g")}
UserTurns == {Turn("user", <<ResponsePart>>), Turn("user", <<FCPart(Undefined, "f")>>)}

NonEmptySeqsUpTo(S, n) == UNION {[1..k -> S] : k \in 1..n}

InputTurns ==
  UserTurns \cup {Turn("model", ps) : ps \in NonEmptySeqsUpTo(ModelTurnParts, MaxTurnParts)}

\* the sequences of at most n elements of S whose sizes (size[e] for an
\* element e) add up to at most budget
RECURSIVE SeqsWithin(_, _, _, _)
SeqsWithin(S, size, n, budget) ==
  IF n = 0 THEN {<<>>}
  ELSE {<<>>} \cup
       UNION {{<<e>> \o rest : rest \in SeqsWithin(S, size, n - 1, budget - size[e])}
              : e \in {x \in S : size[x] <= budget}}

\* the turn lists handed to ensureSignatures: at most MaxTurns turns that
\* hold at most MaxTurnParts parts together
InputContents ==
  SeqsWithin(InputTurns, [t \in InputTurns |-> Len(t.parts)], MaxTurns, MaxTurnParts)

\* the messages handed to convertMessages
AssistantBlocks == {Block("text", "x", "", ""), Block("tool_use", "{}", "t1", "f"),
                    Block("tool_use", "{}", "t2", "g")}
UserBlocks == {Block("text", "x", "", ""), Block("tool_result", "r", "t1", "")}

InputMessages ==
  {Message("user", TRUE, "hi", <<>>), Message("assistant", FALSE, "", <<>>)}
  \cup {Message("assistant", FALSE, "", c) : c \in NonEmptySeqsUpTo(AssistantBlocks, MaxTurnParts)}
  \cup {Message("user", FALSE, "", c) : c \in NonEmptySeqsUpTo(UserBlocks, MaxTurnParts)}

\* the message lists handed to convert: at most MaxMsgs messages that hold
\* at most MaxTurnParts blocks together (a message without blocks counts 1)
InputMessageLists ==
  SeqsWithin(InputMessages,
             [m \in InputMessages |-> IF m.content = <<>> THEN 1 ELSE Len(m.content)],
             MaxMsgs, MaxTurnParts)

\* the parts of a response handed to convertParts
ResponseParts ==
  (PartPalette \ {NullPart})
  \cup {Part("text", "", TRUE, "s2", ""), FCPart("s2", "g"), ResponsePart}

FinishReasons == {Undefined, "STOP", "MAX_TOKENS", "SAFETY"}
Usages == {NoUsage, Usage1, Usage2}

\* the responses handed to ResponseConverter.convert
Responses ==
  {Response(FALSE, Undefined, <<>>, u) : u \in Usages}
  \cup {Response(TRUE, fr, ps, u) : fr \in FinishReasons,
                                    ps \in SeqsUpTo(ResponseParts, MaxRespParts),
                                    u \in Usages}

Positions == (0..(MaxTurns - 1)) \X (0..(MaxTurnParts - 1))

\* the tokens stored by position; the parts of the inputs carry another one
StoredSigs == {"s1"}

streamVars ==
  << pc, wire, objs, framing, chunksRead, buffer,
     blockIndex, messageStarted, currentBlockType, currentThinkingSignature,
     hasEmittedToolUse, inputTokens, outputTokens,
     out, cancelled, readerCancelled, lateChunk,
     reads, pulls, raised, dispatched, server >>

InitLedger ==
  /\ InitService
  /\ InitConverter
  /\ pc = "start"
  /\ buffer = <<>>
  /\ chunksRead = 0
  /\ cancelled = FALSE
  /\ readerCancelled = FALSE
  /\ lateChunk = FALSE
  /\ reads = 0
  /\ pulls = 0
  /\ framing = "none"
  /\ objs = <<>>
  /\ wire = <<>>

\* A run is a sequence of ledger operations with converter calls in between;
\* a converter is called on the ledger the ledger operations have built.
\* call, arg and result hold the last converter call, its argument as it
\* was before the call, and what the call returned.
LedgerReady == call = NoCall

\* the request is converted before any part of the response is seen
RequestPhase == LedgerReady /\ lastTextSignature = Null

StoreSignature ==
  \E pos \in Positions, sig \in StoredSigs :
    /\ key(pos[1], pos[2]) \in DOMAIN store \/ Cardinality(DOMAIN store) < MaxStored
    /\ store' = store_signature(store, pos[1], pos[2], sig)
    /\ call' = NoCall
    /\ arg' = <<>>
    /\ result' = <<>>
    /\ UNCHANGED << streamVars, lastTextSignature, toolNameMap >>

StoreTextSignature ==
  \E sig \in Sigs :
    /\ lastTextSignature' = sig
    /\ call' = NoCall
    /\ arg' = <<>>
    /\ result' = <<>>
    /\ UNCHANGED << streamVars, store, toolNameMap >>

Clear ==
  /\ store' = <<>>
  /\ lastTextSignature' = Null
  /\ call' = NoCall
  /\ arg' = <<>>
  /\ result' = <<>>
  /\ UNCHANGED << streamVars, toolNameMap >>

\* ensureSignatures(contents, isGemini3); contents is changed in place, arg
\* keeps what it was before the call
EnsureSignatures ==
  /\ RequestPhase
  /\ \E contents \in InputContents, isGemini3 \in BOOLEAN :
    /\ call' = [op |-> "ensureSignatures", strict |-> isGemini3]
    /\ arg' = contents
    /\ result' = ensureSignatures(store, contents, isGemini3)
    /\ UNCHANGED << streamVars, store, lastTextSignature, toolNameMap >>

\* RequestConverter.convert: the contents of the assembled request
ConvertMessages ==
  /\ RequestPhase
  /\ \E messages \in InputMessageLists, isGemini3 \in BOOLEAN :
    /\ call' = [op |-> "convert", strict |-> isGemini3]
    /\ arg' = messages
    /\ result' = convertMessages(store, toolNameMap, messages, isGemini3)
    /\ UNCHANGED << streamVars, store, lastTextSignature, toolNameMap >>

ConvertParts ==
  /\ LedgerReady
  /\ \E parts \in SeqsUpTo(ResponseParts, MaxRespParts) :
    LET r == convertParts(parts, lastTextSignature)
    IN /\ call' = [op |-> "convertParts", strict |-> FALSE]
       /\ arg' = parts
       /\ result' = r.blocks
       /\ lastTextSignature' = r.lastTextSignature
       /\ UNCHANGED << streamVars, store, toolNameMap >>

\* ResponseConverter.convert on the ledger of a request, whose positional
\* store is empty when the response arrives
ConvertResponse ==
  /\ LedgerReady
  /\ store = <<>>
  /\ \E response \in Responses :
    LET r == ResponseConverter_convert(response, lastTextSignature)
    IN /\ call' = [op |-> "convertResponse", strict |-> FALSE]
       /\ arg' = response
       /\ result' = r.message
       /\ lastTextSignature' = r.lastTextSignature
       /\ UNCHANGED << streamVars, store, toolNameMap >>

\* Router.handleMessages up to the converted request: a new ledger and a
\* new RequestConverter, both local to the request, buildToolNameMap, convert
HandleMessages ==
  /\ RequestPhase
  /\ store = <<>>
  /\ \E messages \in InputMessageLists, isGemini3 \in BOOLEAN :
    /\ call' = [op |-> "handleMessages", strict |-> isGemini3]
    /\ arg' = messages
    /\ result' = convertMessages(<<>>, buildToolNameMap(messages), messages, isGemini3)
    /\ UNCHANGED << streamVars, store, lastTextSignature, toolNameMap >>

NextLedger ==
  \/ StoreSignature \/ StoreTextSignature \/ Clear
  \/ EnsureSignatures \/ ConvertMessages \/ ConvertParts
  \/ ConvertResponse \/ HandleMessages

SpecLedger == InitLedger /\ [][NextLedger]_vars

\* ------------------------------------------------------------------------
\* The operations of one ledger, with the operations issued so far in arg
\* ------------------------------------------------------------------------
\* positions of the logged stores: two of them print the same digits
OpPositions == {<<0, 0>>, <<1, 12>>, <<11, 2>>}

Op(op, pos, sig) == [op |-> op, pos |-> pos, sig |-> sig]

LoggedStore ==
  /\ call = NoCall
  /\ Len(arg) < MaxOps
  /\ \E pos \in OpPositions, sig \in Sigs :
       /\ store' = store_signature(store, pos[1], pos[2], sig)
       /\ arg' = Append(arg, Op("store_signature", pos, sig))
  /\ UNCHANGED << streamVars, lastTextSignature, toolNameMap, call, result >>

LoggedStoreText ==
  /\ call = NoCall
  /\ Len(arg) < MaxOps
  /\ \E sig \in Sigs :
       /\ lastTextSignature' = sig
       /\ arg' = Append(arg, Op("storeTextSignature", <<0, 0>>, sig))
  /\ UNCHANGED << streamVars, store, toolNameMap, call, result >>

LoggedClear ==
  /\ call = NoCall
  /\ Len(arg) < MaxOps
  /\ store' = <<>>
  /\ lastTextSignature' = Null
  /\ arg' = Append(arg, Op("clear", <<0, 0>>, Undefined))
  /\ UNCHANGED << streamVars, toolNameMap, call, result >>

\* the turns handed to extractFromContents
ExtractParts ==
  {TextPart("x"), Part("text", "b", FALSE, "s1", ""),
   Part("text", "u", TRUE, "s2", ""), FCPart("s2", "g")}

ExtractTurns ==
  {Turn("user", <<Part("text", "b", FALSE, "s1", "")>>), Turn("user", <<FCPart("s2", "g")>>)}
  \cup {Turn("model", ps) : ps \in NonEmptySeqsUpTo(ExtractParts, MaxTurnParts)}

ExtractContents ==
  SeqsWithin(ExtractTurns, [t \in ExtractTurns |-> Len(t.parts)], MaxTurns, MaxTurnParts)

\* extractFromContents(contents) on the ledger the operations have built;
\* result keeps the ledger as it was before the call
ExtractFromContents ==
  /\ call = NoCall
  /\ Len(arg) <= MaxOpsBeforeExtract
  /\ \E contents \in ExtractContents :
       LET led == extractFromContents(Ledger(store, lastTextSignature), contents) IN
       /\ store' = led.store
       /\ lastTextSignature' = led.lastTextSignature
       /\ call' = [op |-> "extractFromContents", strict |-> FALSE]
       /\ arg' = contents
       /\ result' = Ledger(store, lastTextSignature)
  /\ UNCHANGED << streamVars, toolNameMap >>

NextLedgerOps == LoggedStore \/ LoggedStoreText \/ LoggedClear \/ ExtractFromContents

SpecLedgerOps == InitLedger /\ [][NextLedgerOps]_vars

\* ------------------------------------------------------------------------
\* Concurrent requests: Router.handleMessages for several requests, their
\* steps interleaved at the awaits
\* ------------------------------------------------------------------------
\* an object: its class, its fields, and the ledger it was constructed with
\* (0: none)
Obj(class, state, ledger) == [class |-> class, state |-> state, ledger |-> ledger]

\* variant: one object per class, shared by every request
New_Shared(objects, obj) ==
  IF \E i \in 1..Len(objects) : objects[i].class = obj.class
  THEN [objects |-> objects,
        ref |-> CHOOSE i \in 1..Len(objects) : objects[i].class = obj.class]
  ELSE [objects |-> Append(objects, obj), ref |-> Len(objects) + 1]

\* new C(...): another object, and the reference to it
New(objects, obj) == [objects |-> Append(objects, obj), ref |-> Len(objects) + 1]

\* what a request holds: where it is and its three service objects (0: not
\* created)
Request(phase, ledger, requestConverter, streamConverter) ==
  [phase |-> phase, ledger |-> ledger, requestConverter |-> requestConverter,
   streamConverter |-> streamConverter]

\* the bodies of the requests and the chunks of their upstream responses
RequestBodies ==
  {<<Message("assistant", FALSE, "", <<Block("tool_use", "{}", "t1", n)>>),
     Message("user", FALSE, "", <<Block("tool_result", "r", "t1", "")>>)>> : n \in {"f", "g"}}

RequestChunks ==
  {Chunk(FALSE, Usage1, <<Part("text", "b", FALSE, "s1", "")>>),
   Chunk(FALSE, Usage2, <<Part("functionCall", "{x:1}", FALSE, Undefined, "f")>>)}

\* the converter state a StreamConverter method works on: its own fields
\* and, through this.thoughtSignatures, the last text signature of its ledger
StateOf(objects, ref) ==
  [objects[ref].state EXCEPT
     !.lastTextSignature = objects[objects[ref].ledger].state.lastTextSignature]

\* the objects after a StreamConverter method has left st
WriteBack(objects, ref, st) ==
  [objects EXCEPT
     ![ref].state = [st EXCEPT !.lastTextSignature = Null, !.thrown = FALSE],
     ![objects[ref].ledger].state.lastTextSignature = st.lastTextSignature]

\* handleMessages up to the upstream call: the per-request services,
\* buildToolNameMap, convert
CreateServices ==
  /\ \E r \in 1..Len(server.requests), messages \in RequestBodies :
       /\ server.requests[r].phase = "accepted"
       /\ LET a == New(server.objects, Obj("ThoughtSignatureService", Ledger(<<>>, Null), 0))
              b == New(a.objects, Obj("RequestConverter", buildToolNameMap(messages), a.ref))
          IN server' = [objects |-> b.objects,
                        requests |-> [server.requests EXCEPT
                                        ![r] = Request("converted", a.ref, b.ref, 0)]]
  /\ UNCHANGED oneRequestVars

\* handleStreamingRequest after the upstream has answered
CreateStream ==
  /\ \E r \in 1..Len(server.requests) :
       /\ server.requests[r].phase = "converted"
       /\ LET c == New(server.objects,
                       Obj("StreamConverter", InitialConverter, server.requests[r].ledger))
          IN server' = [objects |-> c.objects,
                        requests |-> [server.requests EXCEPT
                                        ![r].phase = "streaming",
                                        ![r].streamConverter = c.ref]]
  /\ UNCHANGED oneRequestVars

\* the upstream object of the response of request r is translated
TranslateChunk ==
  /\ \E r \in 1..Len(server.requests), chunk \in RequestChunks :
       /\ server.requests[r].phase = "streaming"
       /\ LET ref == server.requests[r].streamConverter IN
          server' = [objects |-> WriteBack(server.objects, ref,
                                           processChunk(StateOf(server.objects, ref), chunk)),
                     requests |-> [server.requests EXCEPT ![r].phase = "translated"]]
  /\ UNCHANGED oneRequestVars

\* the upstream of request r ends
EndStream ==
  /\ \E r \in 1..Len(server.requests) :
       /\ server.requests[r].phase \in {"streaming", "translated"}
       /\ LET ref == server.requests[r].streamConverter IN
          server' = [objects |-> WriteBack(server.objects, ref,
                                           emitMessageEnd(closeCurrentBlock(
                                             StateOf(server.objects, ref)))),
                     requests |-> [server.requests EXCEPT ![r].phase = "done"]]
  /\ UNCHANGED oneRequestVars

NextRequests == CreateServices \/ CreateStream \/ TranslateChunk \/ EndStream

SpecRequests == InitLedger /\ [][NextRequests]_vars

\* the objects request r refers to
Refs(srv, r) ==
  {srv.requests[r].ledger, srv.requests[r].requestConverter,
   srv.requests[r].streamConverter} \ {0}

\* C20: in every interleaving of the requests, no two requests refer to the
\* same ledger, tool-name map or stream state, every stream converter works
\* on the ledger of its own request, and the objects a step changes all
\* belong to one request
C20_RequestsIsolated ==
  [][/\ \A r1, r2 \in 1..Len(server'.requests) :
          r1 # r2 => Refs(server', r1) \cap Refs(server', r2) = {}
     /\ \A r \in 1..Len(server'.requests) : \A i \in Refs(server', r) :
          server'.objects[i].ledger \in {0, server'.requests[r].ledger}
     /\ \E r \in 1..Len(server'.requests) :
          \A i \in 1..Len(server.objects) :
            server'.objects[i] # server.objects[i] => i \in Refs(server', r)
    ]_vars

\* two requests have translated at once and have left different block
\* indices and usage counters in their stream states and different names in
\* their tool-name maps
C20_Witness ==
  /\ server.requests[1].phase = "translated"
  /\ server.requests[2].phase = "translated"
  /\ server.requests[2].ledger < server.requests[1].ledger
  /\ server.objects[server.requests[1].streamConverter].state.blockIndex
       # server.objects[server.requests[2].streamConverter].state.blockIndex
  /\ server.objects[server.requests[1].streamConverter].state.outputTokens
       # server.objects[server.requests[2].streamConverter].state.outputTokens
  /\ server.objects[server.requests[1].ledger].state.lastTextSignature = "s1"
  /\ server.objects[server.requests[2].ledger].state.lastTextSignature = Null
  /\ server.objects[server.requests[1].requestConverter].state
       # server.objects[server.requests[2].requestConverter].state

\* ------------------------------------------------------------------------
\* Properties of the ledger and the converters
\* ------------------------------------------------------------------------
Retrievable(sig) ==
  \/ lastTextSignature = sig
  \/ \E k \in DOMAIN store : store[k] = sig

\* C4: after convertParts every token seen on a part of the response can
\* still be read back from the ledger
C4_TokensRetrievable ==
  call.op = "convertParts" =>
    \A i \in 1..Len(arg) : Truthy(arg[i].sig) => Retrievable(arg[i].sig)

IsFC(part) == part.kind = "functionCall"
FCIndices(parts) == {p \in 1..Len(parts) : IsFC(parts[p])}
FirstFC(parts) == CHOOSE p \in FCIndices(parts) : \A q \in FCIndices(parts) : p <= q

\* the token the ledger prescribes for the tool call at (t, p), 1-based
Prescribed(t, p) ==
  LET stored == getSignature(store, t - 1, p - 1)
  IN IF stored # Undefined THEN stored ELSE DUMMY_THOUGHT_SIGNATURE

\* C5: convert for a strict-token model puts on the first tool call of each
\* assistant turn the ledger's token for that position, the sentinel only
\* when none is stored, and no token on later tool calls; for other models
\* no tool call carries a token
C5_ConvertUsesLedger ==
  call.op = "convert" =>
    \A t \in 1..Len(result) :
      (result[t].role = "model" /\ FCIndices(result[t].parts) # {}) =>
        LET parts == result[t].parts
            f == FirstFC(parts)
        IN /\ call.strict => parts[f].sig = Prescribed(t, f)
           /\ \A p \in FCIndices(parts) : (p # f \/ ~call.strict) => parts[p].sig = Undefined

\* C6: after ensureSignatures(turns, true) a model turn with two or more
\* tool calls has a token on its first tool call and on no other
C6_OnlyFirstCarriesToken ==
  (call.op = "ensureSignatures" /\ call.strict) =>
    \A t \in 1..Len(result) :
      (result[t].role = "model" /\ Cardinality(FCIndices(result[t].parts)) >= 2) =>
        \A p \in FCIndices(result[t].parts) :
          Truthy(result[t].parts[p].sig) <=> p = FirstFC(result[t].parts)

\* C7: ensureSignatures(turns, true) gives the first tool call of every
\* model turn the ledger's token for its position, or the sentinel if none
\* is stored, and keeps a token that was already there
C7_FirstToolCallToken ==
  (call.op = "ensureSignatures" /\ call.strict) =>
    /\ Len(result) = Len(arg)
    /\ \A t \in 1..Len(arg) :
         (arg[t].role = "model" /\ FCIndices(arg[t].parts) # {}) =>
           LET f == FirstFC(arg[t].parts)
               before == arg[t].parts[f].sig
           IN result[t].parts[f].sig =
                IF Truthy(before) THEN before ELSE Prescribed(t, f)

\* a two-step history: one first tool call recovered its token from the
\* ledger, the other got the sentinel
C7_Witness ==
  /\ call.op = "ensureSignatures" /\ call.strict
  /\ Len(arg) = 2
  /\ \E t, u \in 1..2 :
       /\ t # u
       /\ arg[t].role = "model" /\ arg[u].role = "model"
       /\ FCIndices(arg[t].parts) # {} /\ FCIndices(arg[u].parts) # {}
       /\ LET f == FirstFC(arg[t].parts)
              g == FirstFC(arg[u].parts)
          IN /\ arg[t].parts[f].sig = Undefined
             /\ result[t].parts[f].sig \in Sigs
             /\ arg[u].parts[g].sig = Undefined
             /\ result[u].parts[g].sig = DUMMY_THOUGHT_SIGNATURE

\* C13: convert reports stop_reason tool_use exactly if the content holds a
\* tool_use block, whatever the finish reason; without one MAX_TOKENS gives
\* max_tokens and every other or absent finish reason gives end_turn
C13_StopReasonOverride ==
  call.op = "convertResponse" =>
    result.stop_reason =
      IF \E i \in 1..Len(result.content) : result.content[i].type = "tool_use"
      THEN "tool_use"
      ELSE IF arg.hasCandidate /\ arg.finishReason = "MAX_TOKENS" THEN "max_tokens"
      ELSE "end_turn"

\* a response cut at MAX_TOKENS that holds a tool call is reported as tool_use
C13_Witness ==
  /\ call.op = "convertResponse"
  /\ arg.hasCandidate /\ arg.finishReason = "MAX_TOKENS"
  /\ \E i \in 1..Len(arg.parts) : IsFC(arg.parts[i])
  /\ result.stop_reason = "tool_use"

\* C14 (non-streaming): the usage of the message is promptTokenCount and
\* candidatesTokenCount + thoughtsTokenCount of the response's usage
\* metadata, absent values counted as 0
C14_UsageTotals ==
  call.op = "convertResponse" =>
    /\ result.usage.input_tokens = Coalesce(arg.usage.prompt, 0)
    /\ result.usage.output_tokens =
         Coalesce(arg.usage.cand, 0) + Coalesce(arg.usage.thoughts, 0)

\* the blocks one upstream part stands for: none or one
BlocksOf(part) ==
  IF part.kind = "text" THEN
    IF part.text = "" /\ Truthy(part.sig) THEN <<>>
    ELSE IF part.thought
    THEN <<ContentBlock("thinking", part.text,
                        IF Truthy(part.sig) THEN part.sig ELSE "", "")>>
    ELSE IF part.text # "" THEN <<ContentBlock("text", part.text, "", "")>>
    ELSE <<>>
  ELSE IF part.kind = "functionCall"
  THEN <<ContentBlock("tool_use", part.text, "", part.name)>>
  ELSE <<>>

RECURSIVE AllBlocksOf(_)
AllBlocksOf(parts) ==
  IF parts = <<>> THEN <<>> ELSE BlocksOf(Head(parts)) \o AllBlocksOf(Tail(parts))

ExpectedContent(parts) ==
  IF AllBlocksOf(parts) = <<>> THEN <<ContentBlock("text", "", "", "")>>
  ELSE AllBlocksOf(parts)

\* C17: the content is the blocks of the parts in order, at most one per
\* part, and exactly one empty text block when no part yields a block
C17_BlocksPerPart ==
  /\ call.op = "convertParts" => result = ExpectedContent(arg)
  /\ call.op = "convertResponse" =>
       /\ result.content # <<>>
       /\ result.content = ExpectedContent(IF arg.hasCandidate THEN arg.parts ELSE <<>>)

\* a response whose only part is an empty text part carrying a token is
\* returned as one empty text block
C17_Witness ==
  /\ call.op = "convertParts"
  /\ Len(arg) = 1 /\ arg[1].kind = "text" /\ arg[1].text = "" /\ Truthy(arg[1].sig)
  /\ result = <<ContentBlock("text", "", "", "")>>


\* ------------------------------------------------------------------------
\* Properties of the converted request
\* ------------------------------------------------------------------------
\* the blocks of a message content whose type is one of types, in order
BlocksOfType(content, types) ==
  LET Test(block) == block.type \in types IN SelectSeq(content, Test)

\* a user message with blocks, at least one of them a tool_result
HasToolResults(m) ==
  ~m.isString /\ m.role = "user" /\ BlocksOfType(m.content, {"tool_result"}) # <<>>

\* the number of target turns of a message
TurnCount(m) ==
  IF HasToolResults(m)
  THEN Len(BlocksOfType(m.content, {"tool_result"}))
       + (IF BlocksOfType(m.content, {"text", "image"}) # <<>> THEN 1 ELSE 0)
  ELSE 1

\* the number of target turns of the messages before the i-th
RECURSIVE Offset(_, _)
Offset(messages, i) ==
  IF i <= 1 THEN 0 ELSE Offset(messages, i - 1) + TurnCount(messages[i - 1])

\* the tool_use blocks of the first n messages that declare id
Declarations(messages, n, id) ==
  {b \in UNION {{messages[j].content[k] : k \in 1..Len(messages[j].content)}
                 : j \in {x \in 1..n : ~messages[x].isString}}
     : b.type = "tool_use" /\ b.id = id}

RECURSIVE LatestStored(_, _, _)
LatestStored(log, i, pos) ==
  IF i = 0 \/ log[i].op = "clear" THEN Undefined
  ELSE IF log[i].op = "store_signature" /\ log[i].pos = pos THEN log[i].sig
  ELSE LatestStored(log, i - 1, pos)

RECURSIVE LatestText(_, _)
LatestText(log, i) ==
  IF i = 0 \/ log[i].op = "clear" THEN Null
  ELSE IF log[i].op = "storeTextSignature" THEN log[i].sig
  ELSE LatestText(log, i - 1)

\* C18: after any sequence of store_signature, storeTextSignature and clear,
\* getSignature(t, p) is the token of the latest store_signature(t, p) since
\* the last clear (absent if none), whatever was stored at other positions,
\* and getLastTextSignature is the token of the latest storeTextSignature
\* since the last clear (null if none)
C18_LastWriteWins ==
  call = NoCall =>
    /\ \A pos \in OpPositions :
         getSignature(store, pos[1], pos[2]) = LatestStored(arg, Len(arg), pos)
    /\ lastTextSignature = LatestText(arg, Len(arg))

\* a token has been overwritten at one position and then another position,
\* printed with the same digits, has been stored
C18_Witness ==
  /\ call = NoCall
  /\ Len(arg) = 3
  /\ arg[1] = Op("store_signature", <<1, 12>>, "s1")
  /\ arg[2] = Op("store_signature", <<1, 12>>, "s2")
  /\ arg[3] = Op("store_signature", <<11, 2>>, "s1")
  /\ getSignature(store, 1, 12) = "s2"

\* the positions (t, p) of the token-carrying parts of the model turns
TokenPositions(contents) ==
  {pos \in (0..(Len(contents) - 1)) \X (0..(MaxTurnParts + 1)) :
     /\ contents[pos[1] + 1].role = "model"
     /\ pos[2] < Len(contents[pos[1] + 1].parts)
     /\ Truthy(contents[pos[1] + 1].parts[pos[2] + 1].sig)}

\* those of them that are free text
TextPositions(contents) ==
  {pos \in TokenPositions(contents) : contents[pos[1] + 1].parts[pos[2] + 1].kind = "text"}

\* pos comes before or at q in history order
Before(pos, q) == pos[1] < q[1] \/ (pos[1] = q[1] /\ pos[2] <= q[2])

\* C19: extractFromContents stores the token of every token-carrying part of
\* a model turn at the part's position and nothing else, and leaves in the
\* last-text slot the token of the last token-carrying free-text part of a
\* model turn, or what the slot held if there is none
C19_ExtractStores ==
  call.op = "extractFromContents" =>
    /\ \A pos \in TokenPositions(arg) :
         getSignature(store, pos[1], pos[2]) = arg[pos[1] + 1].parts[pos[2] + 1].sig
    /\ \A pos \in (OpPositions \cup ((0..MaxTurns) \X (0..(MaxTurnParts + 1))))
                 \ TokenPositions(arg) :
         getSignature(store, pos[1], pos[2]) = getSignature(result.store, pos[1], pos[2])
    /\ IF TextPositions(arg) = {}
       THEN lastTextSignature = result.lastTextSignature
       ELSE \E q \in TextPositions(arg) :
              /\ \A pos \in TextPositions(arg) : Before(pos, q)
              /\ lastTextSignature = arg[q[1] + 1].parts[q[2] + 1].sig

\* a model turn with a signed text part and a signed tool call after it, and
\* a signed user turn, have been extracted into a ledger that held another
\* text token
C19_Witness ==
  /\ call.op = "extractFromContents"
  /\ Len(arg) = 2
  /\ arg[1].role = "user"
  /\ arg[2] = Turn("model", <<Part("text", "b", FALSE, "s1", ""), FCPart("s2", "g")>>)
  /\ result.lastTextSignature = "s2"
  /\ lastTextSignature = "s1"
  /\ getSignature(store, 1, 1) = "s2"
  /\ getSignature(store, 0, 0) = Undefined

\* ------------------------------------------------------------------------
\* RequestConverter.sanitizeSchema on JSON values
\* ------------------------------------------------------------------------
\* a JSON value: k is its kind ("atom" for a string, number or boolean,
\* "null", "object", "array"), a the text of an atom, f the fields of an
\* object (a key that is not in the domain is undefined), e the elements of
\* an array
JsonValue(k, a, f, e) == [k |-> k, a |-> a, f |-> f, e |-> e]
Atom(a) == JsonValue("atom", a, <<>>, <<>>)
JsonNull == JsonValue("null", "", <<>>, <<>>)
ObjectOf(f) == JsonValue("object", "", f, <<>>)
ArrayOf(e) == JsonValue("array", "", <<>>, e)

ALLOWED_SCHEMA_KEYS ==
  {"type", "description", "properties", "items", "required", "enum", "format", "nullable"}

\* value && typeof value === "object"
IsObjectLike(v) == v.k \in {"object", "array"}

\* Object.entries of an object or an array: the keys and the value at a key
EntryKeys(v) ==
  IF v.k = "object" THEN DOMAIN v.f ELSE {DigitChar[j] : j \in 1..Len(v.e)}

EntryAt(v, name) ==
  IF v.k = "object" THEN v.f[name]
  ELSE v.e[CHOOSE j \in 1..Len(v.e) : DigitChar[j] = name]

\* String(x) of a const value
StringOf(v) ==
  IF v.k = "atom" THEN v
  ELSE IF v.k = "null" THEN Atom("null")
  ELSE IF v.k = "object" THEN Atom("[object Object]")
  ELSE Atom("[array]")

\* schema.anyOf ?? schema.oneOf ?? schema.allOf: the first of the three that
\* is neither undefined nor null
Alternatives(f) ==
  LET Has(name) == name \in DOMAIN f /\ f[name].k # "null" IN
  IF Has("anyOf") THEN f["anyOf"]
  ELSE IF Has("oneOf") THEN f["oneOf"]
  ELSE IF "allOf" \in DOMAIN f THEN f["allOf"]
  ELSE JsonNull

\* the loop over the alternatives; acc holds enumValues, canEnum and whether
\* sanitized.nullable has been set
RECURSIVE collectEnum(_, _, _)
collectEnum(acc, options, i) ==
  IF i > Len(options) THEN acc
  ELSE LET opt == options[i] IN
       collectEnum(
         IF ~IsObjectLike(opt) THEN acc
         ELSE IF "const" \in DOMAIN opt.f
           THEN [acc EXCEPT !.enumValues = Append(@, StringOf(opt.f["const"]))]
         ELSE IF "enum" \in DOMAIN opt.f /\ opt.f["enum"].k = "array"
           THEN [acc EXCEPT !.enumValues = @ \o opt.f["enum"].e]
         ELSE IF "type" \in DOMAIN opt.f /\ opt.f["type"] = Atom("null")
           THEN [acc EXCEPT !.nullable = TRUE]
         ELSE [acc EXCEPT !.canEnum = FALSE],
         options, i + 1)

\* !sanitized.type
NoType(f) == "type" \notin DOMAIN f \/ f["type"] \in {JsonNull, Atom("")}

\* the fields of sanitized after the anyOf/oneOf/allOf step
flatten(f, acc) ==
  LET n == IF acc.nullable THEN ("nullable" :> Atom("true")) @@ f ELSE f IN
  IF acc.canEnum /\ acc.enumValues # <<>>
  THEN (IF NoType(n) THEN ("type" :> Atom("string")) ELSE <<>>)
       @@ ("enum" :> ArrayOf(acc.enumValues)) @@ n
  ELSE n

\* variant: the unsupported keys stay
sanitizeSchema_KeepAll(schema) == schema

\* variant: one unsupported key of the root is dropped in a call
sanitizeSchema_DropOne(schema) ==
  IF schema.k # "object" \/ DOMAIN schema.f \subseteq ALLOWED_SCHEMA_KEYS THEN schema
  ELSE ObjectOf([name \in DOMAIN schema.f
                          \ {CHOOSE n \in DOMAIN schema.f \ ALLOWED_SCHEMA_KEYS : TRUE}
                   |-> schema.f[name]])

RECURSIVE sanitizeSchema(_)
sanitizeSchema(schema) ==
  IF schema.k # "object" THEN schema
  ELSE
    LET kept == [name \in DOMAIN schema.f \cap ALLOWED_SCHEMA_KEYS |->
                   LET value == schema.f[name] IN
                   IF name = "properties" /\ IsObjectLike(value)
                   THEN ObjectOf([p \in EntryKeys(value) |-> sanitizeSchema(EntryAt(value, p))])
                   ELSE IF name = "items" /\ IsObjectLike(value)
                   THEN sanitizeSchema(value)
                   ELSE value]
        anyOf == Alternatives(schema.f)
    IN IF anyOf.k = "array" /\ Len(anyOf.e) > 0
       THEN ObjectOf(flatten(kept, collectEnum([enumValues |-> <<>>, canEnum |-> TRUE,
                                                nullable |-> FALSE], anyOf.e, 1)))
       ELSE ObjectOf(kept)

\* the alternatives of the input schemas: two consts, an enum, the null
\* type, a type that is no literal, and the boolean schema true
SchemaAlternatives ==
  {ObjectOf(("type" :> Atom("string")) @@ ("const" :> Atom("red"))),
   ObjectOf(("type" :> Atom("string")) @@ ("const" :> Atom("blue"))),
   ObjectOf("enum" :> ArrayOf(<<Atom("a"), Atom("b")>>)),
   ObjectOf("type" :> Atom("null")),
   ObjectOf("type" :> Atom("number")),
   Atom("true")}

\* nodes with one of the three keywords, with and without a type of their own
FlattenNodes ==
  {ObjectOf(base @@ (kw :> ArrayOf(alts))) :
     base \in {<<>>, "type" :> Atom("number")},
     kw \in {"anyOf", "oneOf", "allOf"},
     alts \in SeqsUpTo(SchemaAlternatives, MaxAlts)}
  \cup {ObjectOf(("anyOf" :> first) @@ ("oneOf" :> ArrayOf(<<alt>>))) :
          first \in {JsonNull, ArrayOf(<<>>)}, alt \in SchemaAlternatives}

\* schemas without children: a primitive, null, an array, plain nodes with
\* and without unsupported keys, and malformed properties
SchemaLeaves ==
  {Atom("str"), JsonNull,
   ArrayOf(<<ObjectOf("title" :> Atom("t"))>>),
   ObjectOf("type" :> Atom("string")),
   ObjectOf(("type" :> Atom("string")) @@ ("title" :> Atom("t"))
            @@ ("default" :> ObjectOf("x" :> Atom("1")))),
   ObjectOf(("description" :> Atom("d"))
            @@ ("anyOf" :> ArrayOf(<<ObjectOf("const" :> Atom("red")),
                                     ObjectOf("type" :> Atom("null"))>>))),
   ObjectOf(("type" :> Atom("object")) @@ ("properties" :> Atom("p")))}

\* the schemas of depth at most d: a child under properties, under a
\* property named as an unsupported key, under items, and under an
\* unsupported key
RECURSIVE SchemaTrees(_)
SchemaTrees(d) ==
  IF d = 0 THEN SchemaLeaves
  ELSE LET below == SchemaTrees(d - 1) IN
       below
       \cup {ObjectOf(("type" :> Atom("object")) @@ ("properties" :> ObjectOf("p" :> c))) :
               c \in below}
       \cup {ObjectOf(("properties" :> ObjectOf(("title" :> c) @@ ("q" :> Atom("str"))))
                      @@ ("$schema" :> Atom("s"))) : c \in below}
       \cup {ObjectOf(("type" :> Atom("array")) @@ ("items" :> c)
                      @@ ("minItems" :> Atom("1"))) : c \in below}
       \cup {ObjectOf(("type" :> Atom("object")) @@ ("additionalProperties" :> c)) :
               c \in below}

SchemaInputs == FlattenNodes \cup SchemaTrees(MaxDepth)

\* sanitizeSchema(schema); arg keeps the schema, result what was returned
SanitizeSchema ==
  /\ call = NoCall
  /\ \E schema \in SchemaInputs :
       /\ call' = [op |-> "sanitizeSchema", strict |-> FALSE]
       /\ arg' = schema
       /\ result' = sanitizeSchema(schema)
  /\ UNCHANGED << streamVars, store, lastTextSignature, toolNameMap >>

\* sanitizeSchema on what sanitizeSchema returned
SanitizeAgain ==
  /\ call.op = "sanitizeSchema"
  /\ call' = [op |-> "sanitizeSchemaTwice", strict |-> FALSE]
  /\ arg' = arg
  /\ result' = sanitizeSchema(result)
  /\ UNCHANGED << streamVars, store, lastTextSignature, toolNameMap >>

\* the thinking parameter of a request (present FALSE: undefined;
\* budget Absent: no budget_tokens) and the capabilities of the model
Thinking(present, type, budget) == [present |-> present, type |-> type, budget |-> budget]
Capabilities(isGemini3, supportsThinking, defaultThinkingLevel) ==
  [isGemini3 |-> isGemini3, supportsThinking |-> supportsThinking,
   defaultThinkingLevel |-> defaultThinkingLevel]

\* the GeminiThinkingConfig: thinkingLevel Undefined and thinkingBudget
\* Absent are fields that are not set
ThinkingConfig(level, budget) ==
  [includeThoughts |-> TRUE, thinkingLevel |-> level, thinkingBudget |-> budget]

budgetToLevel(budget) ==
  IF budget <= 1024 THEN "MINIMAL"
  ELSE IF budget <= 4096 THEN "LOW"
  ELSE IF budget <= 16384 THEN "MEDIUM"
  ELSE "HIGH"

\* thinking?.budget_tokens as a condition: a number that is not 0
HasBudget(thinking) == thinking.present /\ thinking.budget # Absent /\ thinking.budget # 0

buildThinkingConfig(thinking, capabilities) ==
  LET disabled == thinking.present /\ thinking.type = "disabled" IN
  IF capabilities.isGemini3
  THEN ThinkingConfig(IF disabled THEN "MINIMAL"
                      ELSE IF HasBudget(thinking) THEN budgetToLevel(thinking.budget)
                      ELSE IF capabilities.defaultThinkingLevel = Undefined THEN "HIGH"
                      ELSE capabilities.defaultThinkingLevel,
                      Absent)
  ELSE IF capabilities.supportsThinking
  THEN ThinkingConfig(Undefined,
                      IF disabled THEN 0
                      ELSE IF HasBudget(thinking) THEN thinking.budget
                      ELSE Absent)
  ELSE ThinkingConfig(Undefined, Absent)

\* the budgets of the requests: none, 0, and both sides of each threshold
Budgets == {Absent, 0, 1, 1024, 1025, 4096, 4097, 16384, 16385}

ThinkingInputs ==
  {Thinking(FALSE, "", Absent)}
  \cup {Thinking(TRUE, t, b) : t \in {"enabled", "disabled"}, b \in Budgets}

CapabilityInputs ==
  {Capabilities(TRUE, TRUE, d) : d \in {Undefined, "LOW", "HIGH"}}
  \cup {Capabilities(FALSE, TRUE, Undefined), Capabilities(FALSE, FALSE, Undefined)}

\* buildGenerationConfig's call of buildThinkingConfig
BuildThinkingConfig ==
  /\ call = NoCall
  /\ \E thinking \in ThinkingInputs, capabilities \in CapabilityInputs :
       /\ call' = [op |-> "buildThinkingConfig", strict |-> capabilities.isGemini3]
       /\ arg' = [thinking |-> thinking, capabilities |-> capabilities]
       /\ result' = buildThinkingConfig(thinking, capabilities)
  /\ UNCHANGED << streamVars, store, lastTextSignature, toolNameMap >>

NextRequestFields == SanitizeSchema \/ SanitizeAgain \/ BuildThinkingConfig

SpecRequestFields == InitLedger /\ [][NextRequestFields]_vars

\* C21: sanitizeSchema(sanitizeSchema(x)) is sanitizeSchema(x) for every
\* schema tree x
C21_SanitizeIdempotent ==
  call.op = "sanitizeSchemaTwice" => result = sanitizeSchema(arg)

\* a nested schema with unsupported keys and alternatives below it has been
\* sanitized twice
C21_Witness ==
  /\ call.op = "sanitizeSchemaTwice"
  /\ arg.k = "object"
  /\ "items" \in DOMAIN arg.f
  /\ arg.f["items"].k = "object"
  /\ "anyOf" \in DOMAIN arg.f["items"].f
  /\ result # arg
  /\ "enum" \in DOMAIN result.f["items"].f

\* every object node of a tree, under properties and items at every depth,
\* has allow-listed keys only
RECURSIVE OnlyAllowedKeys(_)
OnlyAllowedKeys(node) ==
  node.k = "object" =>
    /\ DOMAIN node.f \subseteq ALLOWED_SCHEMA_KEYS
    /\ ("properties" \in DOMAIN node.f /\ node.f["properties"].k = "object") =>
         \A p \in DOMAIN node.f["properties"].f :
           OnlyAllowedKeys(node.f["properties"].f[p])
    /\ "items" \in DOMAIN node.f => OnlyAllowedKeys(node.f["items"])

\* C22: for an object-shaped schema every node of what sanitizeSchema
\* returns, the root, the values under properties and the items schema at
\* every depth, has allow-listed keys only; a null, a primitive or an array
\* is returned as it is
C22_OnlyAllowedKeys ==
  call.op = "sanitizeSchema" =>
    IF arg.k = "object" THEN OnlyAllowedKeys(result) ELSE result = arg

\* a tree with an unsupported key at the root and another one two levels
\* down, under a property, has been sanitized
C22_Witness ==
  /\ call.op = "sanitizeSchema"
  /\ arg.k = "object"
  /\ "$schema" \in DOMAIN arg.f
  /\ arg.f["properties"].f["title"].k = "object"
  /\ "items" \in DOMAIN arg.f["properties"].f["title"].f
  /\ arg.f["properties"].f["title"].f["items"].k = "object"
  /\ "title" \in DOMAIN arg.f["properties"].f["title"].f["items"].f
  /\ "title" \in DOMAIN result.f["properties"].f
  /\ ~OnlyAllowedKeys(arg)

\* the alternatives of a node: the elements of its anyOf, oneOf or allOf
\* that is present and not empty (<<>> if there is none)
PresentAlternatives(node) ==
  LET kws == {kw \in {"anyOf", "oneOf", "allOf"} :
                /\ kw \in DOMAIN node.f
                /\ node.f[kw].k = "array"
                /\ node.f[kw].e # <<>>}
  IN IF kws = {} THEN <<>>
     ELSE node.f[CHOOSE kw \in kws : \A other \in kws :
                   kw = "anyOf" \/ (kw = "oneOf" /\ other # "anyOf") \/ other = "allOf"].e

\* an alternative that gives literals (a const or an enum array), and one
\* that is the null type
IsLiteralAlternative(alt) ==
  /\ alt.k = "object"
  /\ \/ "const" \in DOMAIN alt.f
     \/ "enum" \in DOMAIN alt.f /\ alt.f["enum"].k = "array"

IsNullAlternative(alt) ==
  alt.k = "object" /\ "type" \in DOMAIN alt.f /\ alt.f["type"] = Atom("null")

\* the literals of the alternatives, in order
RECURSIVE LiteralsOf(_)
LiteralsOf(alts) ==
  IF alts = <<>> THEN <<>>
  ELSE (IF ~IsLiteralAlternative(Head(alts)) THEN <<>>
        ELSE IF "const" \in DOMAIN Head(alts).f THEN <<StringOf(Head(alts).f["const"])>>
        ELSE Head(alts).f["enum"].e)
       \o LiteralsOf(Tail(alts))

\* C23: when anyOf, oneOf or allOf is present and not empty, enum is set, to
\* the literals of the alternatives in order, exactly when every alternative
\* is a literal alternative or a null-type alternative and there is a
\* literal; type then defaults to "string" and a null-type alternative sets
\* nullable; otherwise no enum is added
C23_FlattenedEnum ==
  (call.op = "sanitizeSchema" /\ arg.k = "object" /\ PresentAlternatives(arg) # <<>>) =>
    LET alts == PresentAlternatives(arg)
        all == \A i \in 1..Len(alts) :
                 IsLiteralAlternative(alts[i]) \/ IsNullAlternative(alts[i])
    IN IF all /\ LiteralsOf(alts) # <<>>
       THEN /\ "enum" \in DOMAIN result.f
            /\ result.f["enum"] = ArrayOf(LiteralsOf(alts))
            /\ result.f["type"] = IF "type" \in DOMAIN arg.f THEN arg.f["type"]
                                  ELSE Atom("string")
            /\ (\E i \in 1..Len(alts) : IsNullAlternative(alts[i])) =>
                 ("nullable" \in DOMAIN result.f /\ result.f["nullable"] = Atom("true"))
       ELSE "enum" \notin DOMAIN result.f

\* the same for the nodes all of whose alternatives are objects and that
\* carry one of the three keywords only
C23_ObjectAlternatives ==
  (/\ call.op = "sanitizeSchema" /\ arg.k = "object"
   /\ Cardinality(DOMAIN arg.f \cap {"anyOf", "oneOf", "allOf"}) = 1
   /\ \A i \in 1..Len(PresentAlternatives(arg)) : PresentAlternatives(arg)[i].k = "object")
  => C23_FlattenedEnum

\* C24: for a strict-token model disabled gives MINIMAL, an explicit budget
\* b gives MINIMAL, LOW, MEDIUM or HIGH by the thresholds 1024, 4096 and
\* 16384, and every other case the configured default level; for a model
\* with a numeric budget disabled gives 0, every explicit budget, 0 included,
\* is passed through, and otherwise no thinkingBudget is set
C24_ThinkingConfig ==
  call.op = "buildThinkingConfig" =>
    LET t == arg.thinking
        disabled == t.present /\ t.type = "disabled"
        explicit == t.present /\ t.budget # Absent
    IN /\ arg.capabilities.isGemini3 =>
            result.thinkingLevel =
              IF disabled THEN "MINIMAL"
              ELSE IF explicit
                THEN (IF t.budget <= 1024 THEN "MINIMAL"
                      ELSE IF t.budget <= 4096 THEN "LOW"
                      ELSE IF t.budget <= 16384 THEN "MEDIUM" ELSE "HIGH")
              ELSE IF arg.capabilities.defaultThinkingLevel = Undefined THEN "HIGH"
              ELSE arg.capabilities.defaultThinkingLevel
       /\ (~arg.capabilities.isGemini3 /\ arg.capabilities.supportsThinking) =>
            result.thinkingBudget =
              IF disabled THEN 0 ELSE IF explicit THEN t.budget ELSE Absent

\* the same for the budgets that are not 0
C24_NonZeroBudgets ==
  (call.op = "buildThinkingConfig" /\ arg.thinking.budget # 0) => C24_ThinkingConfig

\* ------------------------------------------------------------------------
\* StreamConverter on the parts of a response, one upstream object after the
\* other; arg holds the parts received so far
\* ------------------------------------------------------------------------
\* the parts of the upstream objects: those of the part-level runs and a
\* reasoning-flagged part that has a token and no text
StreamParts == (PartPalette \ {NullPart}) \cup {Part("text", "", TRUE, "s2", "")}

\* processChunk on the next upstream object, with one or two parts
ReceiveParts ==
  /\ pc = "start"
  /\ call = NoCall
  /\ \E ps \in NonEmptySeqsUpTo(StreamParts, 2) :
       /\ Len(arg) + Len(ps) <= MaxStreamParts
       /\ arg' = arg \o ps
       /\ Commit(processChunk(Cur, Chunk(FALSE, NoUsage, ps)))
  /\ UNCHANGED << pc, wire, objs, framing, chunksRead, buffer, cancelled,
                  readerCancelled, lateChunk, reads, pulls,
                  store, toolNameMap, call, result, server >>

\* the done branch of the loop at the end of the upstream body
EndOfStream ==
  /\ pc = "start"
  /\ call = NoCall
  /\ Commit(emitMessageEnd(closeCurrentBlock(Cur)))
  /\ pc' = "closed"
  /\ UNCHANGED << wire, objs, framing, chunksRead, buffer, cancelled,
                  readerCancelled, lateChunk, reads, pulls, serviceVars >>

NextParts == ReceiveParts \/ EndOfStream

SpecParts == InitLedger /\ [][NextParts]_vars

\* a part that is plain text with something in it
IsPlainText(part) == part.kind = "text" /\ ~part.thought /\ part.text # ""

\* the positions in evs of the events that satisfy Test, in order
PositionsOf(evs, Test(_)) ==
  LET idx == {i \in 1..Len(evs) : Test(evs[i])}
  IN [k \in 1..Cardinality(idx) |->
        CHOOSE i \in idx : Cardinality({j \in idx : j <= i}) = k]

IsTextDelta(ev) == ev.type = "content_block_delta" /\ ev.kind = "text_delta"
IsBlockStart(ev) == ev.type = "content_block_start"

\* C26: there is one text_delta per non-empty plain-text part, in arrival
\* order and with the part's text; the deltas of two parts that follow each
\* other are next to each other in one text block; a block is opened only
\* after the block before it has been closed, and with another kind unless
\* one of the two is a tool_use block; three text parts give one start,
\* three deltas, one stop, message_delta with end_turn and message_stop
C26_TextRunsShareBlock ==
  LET texts == PositionsOf(arg, IsPlainText)
      deltas == PositionsOf(out, IsTextDelta)
      starts == PositionsOf(out, IsBlockStart)
  IN /\ Len(deltas) = Len(texts)
     /\ \A k \in 1..Len(texts) : out[deltas[k]].text = arg[texts[k]].text
     /\ \A k \in 1..(Len(texts) - 1) :
          texts[k + 1] = texts[k] + 1 =>
            /\ deltas[k + 1] = deltas[k] + 1
            /\ out[deltas[k + 1]].index = out[deltas[k]].index
     /\ \A k \in 1..Len(starts) :
          /\ out[starts[k] - 1].type \in {"ping", "content_block_stop"}
          /\ k > 1 => \/ out[starts[k]].kind # out[starts[k - 1]].kind
                      \/ out[starts[k]].kind = "tool_use"
     /\ (pc = "closed" /\ Len(arg) = 3 /\ Len(texts) = 3) =>
          /\ [i \in 1..Len(out) |-> out[i].type] =
               <<"message_start", "ping", "content_block_start",
                 "content_block_delta", "content_block_delta", "content_block_delta",
                 "content_block_stop", "message_delta", "message_stop">>
          /\ out[8].kind = "end_turn"

\* three text parts have arrived and the stream has ended
C26_Witness ==
  /\ pc = "closed"
  /\ Len(arg) = 3
  /\ \A i \in 1..3 : IsPlainText(arg[i])
  /\ arg[1] # arg[2]
  /\ Len(out) = 9

\* a part that leaves the open thinking block as it is: a reasoning-flagged
\* part with text or without a token, or a part without text
StaysInThinking(part) ==
  part.kind = "text" /\ (part.text = "" \/ part.thought)

\* a part that reaches handleThinkingDelta
IsThinkingPart(part) ==
  part.kind = "text" /\ part.thought /\ (part.text # "" \/ ~Truthy(part.sig))

\* the token of the open thinking block after parts[1..n]: that of the last
\* part with a token among the parts of the block that came with text
RECURSIVE PendingToken(_, _)
PendingToken(parts, n) ==
  IF n = 0 \/ ~StaysInThinking(parts[n]) THEN ""
  ELSE IF IsThinkingPart(parts[n]) /\ Truthy(parts[n].sig) THEN parts[n].sig
  ELSE PendingToken(parts, n - 1)

\* a step that takes one part, or the end of the stream
OnePartStep == Len(arg') = Len(arg) + 1 \/ (arg' = arg /\ pc' = "closed")

ReasoningPartOpensBlock(p) ==
  /\ p.thought =>
       /\ currentBlockType' = "thinking"
       /\ Truthy(p.sig) => currentThinkingSignature' = p.sig
       /\ currentBlockType # "thinking" =>
            \E j \in (Len(out) + 1)..Len(out') :
              /\ out'[j] = Ev("content_block_start", blockIndex', "thinking", "", 0)
              /\ currentBlockType # Null =>
                   out'[j - 1] = Ev("content_block_stop", blockIndex, "", "", 0)
       /\ (p.text # "") <=>
            (Len(out') > Len(out) /\ out'[Len(out')].kind = "thinking_delta")
  /\ (~p.thought /\ p.text # "") =>
       /\ currentBlockType' = "text"
       /\ out'[Len(out')] = Ev("content_block_delta", blockIndex', "text_delta", p.text, 0)
  /\ (~p.thought /\ p.text = "" /\ Truthy(p.sig)) =>
       /\ \A j \in (Len(out) + 1)..Len(out') : out'[j].type \in {"message_start", "ping"}
       /\ currentBlockType' = currentBlockType
       /\ blockIndex' = blockIndex
       /\ currentThinkingSignature' = currentThinkingSignature

\* C28: a reasoning-flagged part that arrives while no thinking block is open
\* closes the open block and opens a thinking block even when its text is
\* empty, gives a thinking_delta only if it has text, and its token, with or
\* without text, is the one the block will close with; a part with text and
\* no reasoning flag goes to a text block; the free-text part that is dropped
\* without a change of the block state is the empty one with a token and no
\* reasoning flag
C28_ReasoningPartsOpenBlock ==
  [][(Len(arg') = Len(arg) + 1 /\ arg'[Len(arg')].kind = "text") =>
       ReasoningPartOpensBlock(arg'[Len(arg')])]_vars

\* the same for every free-text part but the reasoning-flagged one that has
\* a token and no text
C28_ExceptEmptyTokenCarrier ==
  [][(/\ Len(arg') = Len(arg) + 1
      /\ arg'[Len(arg')].kind = "text"
      /\ ~(/\ arg'[Len(arg')].thought
           /\ arg'[Len(arg')].text = ""
           /\ Truthy(arg'[Len(arg')].sig))) =>
       ReasoningPartOpensBlock(arg'[Len(arg')])]_vars

\* the events that close the open block of the current state
CloseOfOpenBlock ==
  IF currentBlockType = Null THEN << >>
  ELSE (IF currentBlockType = "thinking" /\ currentThinkingSignature # ""
        THEN << Ev("content_block_delta", blockIndex, "signature_delta",
                   currentThinkingSignature, 0) >>
        ELSE << >>)
       \o << Ev("content_block_stop", blockIndex, "", "", 0) >>

\* the index of the tool_use block of a function call taken in the current state
ToolUseIndex == IF currentBlockType = Null THEN blockIndex ELSE blockIndex + 1

\* the three events of the function call fc, with the index i
ToolUseTriple(fc, i) ==
  << Ev("content_block_start", i, "tool_use", fc.name, 0),
     Ev("content_block_delta", i, "input_json_delta", fc.text, 0),
     Ev("content_block_stop", i, "", "", 0) >>

\* C25: a step that takes a function-call part appends, after the
\* message_start and ping of a first object, the close of the open block if
\* there is one and then content_block_start (tool_use, the call's name),
\* one input_json_delta with the serialized arguments and content_block_stop,
\* the three with one index i and nothing between or after them; then no
\* block is open and the block index is i + 1
C25_ToolUseTriple ==
  [][(Len(arg') = Len(arg) + 1 /\ arg'[Len(arg')].kind = "functionCall") =>
       LET fc == arg'[Len(arg')]
           first == IF messageStarted THEN 0 ELSE 2
       IN /\ Len(out') >= Len(out) + first
          /\ \A j \in 1..first :
               out'[Len(out) + j].type = (IF j = 1 THEN "message_start" ELSE "ping")
          /\ out' = SubSeq(out', 1, Len(out) + first)
                    \o CloseOfOpenBlock \o ToolUseTriple(fc, ToolUseIndex)
          /\ SubSeq(out', 1, Len(out)) = out
          /\ currentBlockType' = Null
          /\ blockIndex' = ToolUseIndex + 1
          /\ hasEmittedToolUse'
     ]_vars

\* function calls have been taken with a thinking block that has a token
\* open, with a text block open, and with no block open
C25_Witness ==
  /\ Len(arg) = 3
  /\ arg[1].thought /\ arg[1].sig = "s1"
  /\ arg[2].kind = "functionCall"
  /\ arg[3].kind = "functionCall"
  /\ blockIndex = 3
  /\ currentBlockType = Null
  /\ Len(out) = 12
  /\ out[5].kind = "signature_delta"
  /\ out[7].kind = "tool_use" /\ out[7].index = 1
  /\ out[10].kind = "tool_use" /\ out[10].index = 2

\* the number of events of the type among evs[1..n]
TypeCount(evs, n, type) == Cardinality({j \in 1..n : evs[j].type = type})

IsBlockEvent(ev) ==
  ev.type \in {"content_block_start", "content_block_delta", "content_block_stop"}

\* the content_block_stop events a step appends
NewStops ==
  {j \in (Len(out) + 1)..Len(out') : out'[j].type = "content_block_stop"}

\* C29: blockIndex never decreases, and each step of it by one comes with a
\* content_block_stop of the block that had the index before; at most one
\* block is open at any time, a block is open exactly when currentBlockType
\* is set, and the start, the deltas and the stop of the k-th block all
\* carry the index k - 1
C29_BlockIndexAdvances ==
  /\ [](/\ \A j \in 1..Len(out) :
             LET starts == TypeCount(out, j, "content_block_start")
                 stops  == TypeCount(out, j - 1, "content_block_stop")
             IN /\ starts - stops \in {0, 1}
                /\ IsBlockEvent(out[j]) =>
                     /\ starts - stops = 1
                     /\ out[j].index = starts - 1
        /\ pc # "closed" =>
             /\ blockIndex = TypeCount(out, Len(out), "content_block_stop")
             /\ (currentBlockType # Null) <=>
                  (TypeCount(out, Len(out), "content_block_start") = blockIndex + 1)
        /\ blockIndex <= TypeCount(out, Len(out), "content_block_stop"))
  /\ [][/\ blockIndex' >= blockIndex
        /\ \A v \in (blockIndex + 1)..blockIndex' :
             \E j \in NewStops : out'[j].index = v - 1
        /\ OnePartStep => blockIndex' <= blockIndex + 2
        /\ (OnePartStep /\ arg' # arg /\ arg'[Len(arg')].kind # "functionCall") =>
             blockIndex' <= blockIndex + 1
       ]_vars

\* three blocks of three kinds have been closed, one after the other
C29_Witness ==
  /\ pc = "closed"
  /\ blockIndex = 3
  /\ \E i, j, k \in 1..Len(out) :
       /\ out[i].type = "content_block_start" /\ out[i].kind = "thinking" /\ out[i].index = 0
       /\ out[j].type = "content_block_start" /\ out[j].kind = "text" /\ out[j].index = 1
       /\ out[k].type = "content_block_start" /\ out[k].kind = "tool_use" /\ out[k].index = 2
  /\ TypeCount(out, Len(out), "content_block_stop") = 3

\* the part p of turn t is the first tool call of a model turn and has no token
IsTokenlessFirstCall(contents, t, p) ==
  /\ contents[t].role = "model"
  /\ IsFC(contents[t].parts[p])
  /\ p = FirstFC(contents[t].parts)
  /\ ~Truthy(contents[t].parts[p].sig)

\* C30: ensureSignatures(turns, false) returns the turns as they were;
\* ensureSignatures(turns, true) keeps the number and the order of the turns
\* and of their parts, every user turn, every text and function-response
\* part, every tool call that is not the first of its model turn, stored
\* token or not, and every first tool call that had a token; the token-less
\* first tool call of a model turn differs by its token only; the call
\* leaves the ledger's entries and its last free-text slot as they were
C30_EnsureSignaturesFrame ==
  /\ [](call.op = "ensureSignatures" =>
          /\ ~call.strict => result = arg
          /\ Len(result) = Len(arg)
          /\ \A t \in 1..Len(arg) :
               /\ result[t].role = arg[t].role
               /\ Len(result[t].parts) = Len(arg[t].parts)
               /\ arg[t].role # "model" => result[t] = arg[t]
               /\ \A p \in 1..Len(arg[t].parts) :
                    IF call.strict /\ IsTokenlessFirstCall(arg, t, p)
                    THEN /\ Truthy(result[t].parts[p].sig)
                         /\ [result[t].parts[p] EXCEPT !.sig = Undefined] = arg[t].parts[p]
                    ELSE result[t].parts[p] = arg[t].parts[p])
  /\ [][(call'.op = "ensureSignatures" /\ call = NoCall) =>
          /\ store' = store
          /\ lastTextSignature' = lastTextSignature]_vars

\* a strict call on a model turn of two token-less tool calls, with a token
\* stored for the position of the second: the second has none afterwards
C30_Witness ==
  /\ call.op = "ensureSignatures" /\ call.strict
  /\ Len(arg) >= 1
  /\ arg[1] = Turn("model", << FCPart(Undefined, "f"), FCPart(Undefined, "f") >>)
  /\ getSignature(store, 0, 1) # Undefined
  /\ result[1].parts[1].sig = DUMMY_THOUGHT_SIGNATURE
  /\ result[1].parts[2].sig = Undefined

====
